---- MODULE Spec2Model ----
(***************************************************************************)
(* Model of the three-store consistency protocol of Qwen-Astro's RAG       *)
(* engine: the JSON catalog (GroupManager.groups_meta), the blob storage   *)
(* (one directory per group) and the vector store (Chroma collection),     *)
(* driven by request threads (Flask routes) and background index threads.  *)
(*                                                                         *)
(* Every request thread is a slot of `proc`; every background thread is a  *)
(* member of `tasks`.  One action is one access to a shared store (or one  *)
(* call made under GroupManager._lock), so that the interleavings of the   *)
(* model are the interleavings of the threads of the program.              *)
(***************************************************************************)
EXTENDS Integers, Sequences, FiniteSets, TLC

\* ------------------------------------------------------------------ bounds
NProcs == 2          \* request threads that may run at the same time
MaxGroups == 2       \* uuid4 values handed out as group ids
MaxRecords == 2      \* uuid4 values handed out as file / webpage record ids
MaxBatch == 2        \* items in one upload / add-webpages request
MaxRequests == 3     \* requests started in one behaviour
MaxSourceRequests == 2   \* of these, requests on the sources of existing groups

Procs == 1..NProcs
GroupIds == 1..MaxGroups
RecordIds == 1..MaxRecords
GroupNames == {"astronomy", "physics"}
FileNames == {<<"a">>, <<"b">>}       \* original names: base name, no suffix
Urls == {<<"u1">>, <<"u2">>}
NoId == 0                              \* an absent metadata key

\* ------------------------------------------------------------------ state
VARIABLES
    groups_meta,   \* GroupManager.groups_meta: group id -> group entry
    meta_file,     \* the catalog file (group_meta.json) as last written
    dirs,          \* blob storage: directory id -> (stored name -> content)
    vstore,        \* the Chroma collection: a set of nodes
    proc,          \* request threads: position and locals
    tasks,         \* background index threads: position and locals
    next_gid,      \* uuid4 values used for groups so far
    next_rid,      \* uuid4 values used for records so far
    nreq           \* requests started so far

vars == <<groups_meta, meta_file, dirs, vstore, proc, tasks, next_gid, next_rid, nreq>>

\* a request thread between requests: what its last request returned and the last
\* error it logged
Idle(r, l) == [op |-> "idle", ret |-> r, log |-> l]

\* ------------------------------------------------------- helper functions
Remove(f, k) == [x \in DOMAIN f \ {k} |-> f[x]]

Put(f, k, v) == [x \in DOMAIN f \cup {k} |-> IF x = k THEN v ELSE f[x]]

get_all_group_names == {groups_meta[g].name : g \in DOMAIN groups_meta}

get_group_by_id(g) == g \in DOMAIN groups_meta

\* os.path.join(data_root, meta["directory"]), None for a missing group
get_group_physical_path(g) == IF g \in DOMAIN groups_meta THEN groups_meta[g].directory ELSE NoId

\* the catalog file holding the JSON dump of a catalog
CatalogFile(meta) == [valid |-> TRUE, groups |-> meta]

\* the catalog file after _save_meta: open(path, "w") and json.dump, which either
\* write the catalog, or fail before the file is opened, or fail after it was truncated
save_meta(file, meta, outcome) ==
    CASE outcome = "written" -> CatalogFile(meta)
      [] outcome = "open failed" -> file
      [] OTHER -> [valid |-> FALSE, groups |-> << >>]

Init ==
    /\ groups_meta = << >>
    /\ meta_file = CatalogFile(<< >>)
    /\ dirs = << >>
    /\ vstore = {}
    /\ proc = [p \in Procs |-> Idle("none", "")]
    /\ tasks = << >>
    /\ next_gid = 0
    /\ next_rid = 0
    /\ nreq = 0

Step(p, rec) == proc' = [proc EXCEPT ![p] = rec]

\* a request arrives on the first free thread (the threads are interchangeable)
CanStart(p) ==
    /\ proc[p].op = "idle"
    /\ \A q \in Procs : q < p => proc[q].op # "idle"
    /\ nreq < MaxRequests

\* ------------------------------------------------- GroupManager.create_group
CG_Call(p) ==
    /\ CanStart(p)
    /\ \E n \in GroupNames : Step(p, [op |-> "create_group", pc |-> "check", name |-> n])
    /\ nreq' = nreq + 1
    /\ UNCHANGED <<groups_meta, meta_file, dirs, vstore, tasks, next_gid, next_rid>>

\* create_group without the name check
CG_AfterCheck_Ignore(p, taken) == Step(p, [proc[p] EXCEPT !.pc = "mkdir"])

\* what create_group does once the name has been looked up among the group names
CG_AfterCheck(p, taken) ==
    IF taken
    THEN Step(p, Idle("None", "name exists"))
    ELSE Step(p, [proc[p] EXCEPT !.pc = "mkdir"])

\* `if name in self.get_all_group_names(): return None` (no lock is held)
CG_Check(p) ==
    /\ proc[p].op = "create_group" /\ proc[p].pc = "check"
    /\ CG_AfterCheck(p, proc[p].name \in get_all_group_names)
    /\ UNCHANGED <<groups_meta, meta_file, dirs, vstore, tasks, next_gid, next_rid, nreq>>

\* uuid4, os.makedirs(group_dir); OSError -> return None
CG_Mkdir(p) ==
    /\ proc[p].op = "create_group" /\ proc[p].pc = "mkdir"
    /\ next_gid < MaxGroups
    /\ LET gid == next_gid + 1 IN
       /\ next_gid' = gid
       /\ \/ /\ dirs' = Put(dirs, gid, << >>)
             /\ Step(p, [op |-> "create_group", pc |-> "insert", name |-> proc[p].name, gid |-> gid])
          \/ /\ dirs' = dirs
             /\ Step(p, Idle("None", "mkdir failed"))
    /\ UNCHANGED <<groups_meta, meta_file, vstore, tasks, next_rid, nreq>>

\* self.groups_meta[group_id] = new_group_meta; self._save_meta()
CG_Insert(p) ==
    /\ proc[p].op = "create_group" /\ proc[p].pc = "insert"
    /\ groups_meta' = Put(groups_meta, proc[p].gid,
                          [name |-> proc[p].name, directory |-> proc[p].gid,
                           files |-> << >>, webpages |-> << >>])
    /\ Step(p, Idle("group", ""))
    /\ meta_file' = save_meta(meta_file, groups_meta', "written")
    /\ UNCHANGED <<dirs, vstore, tasks, next_gid, next_rid, nreq>>

\* ------------------------------------------------- RAGPipeline.delete_group
NodesOfGroup(g) == {n \in vstore : n.group_id = g}

DG_Call(p) ==
    /\ CanStart(p)
    /\ \E g \in GroupIds : Step(p, [op |-> "delete_group", pc |-> "start", gid |-> g])
    /\ nreq' = nreq + 1
    /\ UNCHANGED <<groups_meta, meta_file, dirs, vstore, tasks, next_gid, next_rid>>

\* a delete_group without step 0
DG_Start_NoCheck(p) ==
    /\ proc[p].op = "delete_group" /\ proc[p].pc = "start"
    /\ Step(p, [proc[p] EXCEPT !.pc = "vdelete"])
    /\ UNCHANGED <<groups_meta, meta_file, dirs, vstore, tasks, next_gid, next_rid, nreq>>

\* step 0: a group that does not exist is deleted already
DG_Start(p) ==
    /\ proc[p].op = "delete_group" /\ proc[p].pc = "start"
    /\ IF get_group_by_id(proc[p].gid)
       THEN Step(p, [proc[p] EXCEPT !.pc = "vdelete"])
       ELSE Step(p, Idle("True", "not found"))
    /\ UNCHANGED <<groups_meta, meta_file, dirs, vstore, tasks, next_gid, next_rid, nreq>>

\* step 1a: chroma_collection.delete(where={"group_id": group_id}); it may raise
DG_VectorDelete(p) ==
    /\ proc[p].op = "delete_group" /\ proc[p].pc = "vdelete"
    /\ \/ /\ vstore' = vstore \ NodesOfGroup(proc[p].gid)
          /\ Step(p, [proc[p] EXCEPT !.pc = "verify"])
       \/ /\ vstore' = vstore
          /\ Step(p, [proc[p] EXCEPT !.pc = "vexc"])
    /\ UNCHANGED <<groups_meta, meta_file, dirs, tasks, next_gid, next_rid, nreq>>

\* delete_group without the abort on residual entries
DG_AfterVerify_NoAbort(p, count_after) == Step(p, [proc[p] EXCEPT !.pc = "storage"])

\* what delete_group does once the re-query has answered with `count_after` entries
DG_AfterVerify(p, count_after) ==
    IF count_after = 0
    THEN Step(p, [proc[p] EXCEPT !.pc = "storage"])
    ELSE Step(p, Idle("False", "verify failed"))

\* step 1b: count_after = len(chroma_collection.get(where=...)["ids"]); it may raise
DG_Verify(p) ==
    /\ proc[p].op = "delete_group" /\ proc[p].pc = "verify"
    /\ \/ DG_AfterVerify(p, Cardinality(NodesOfGroup(proc[p].gid)))
       \/ Step(p, [proc[p] EXCEPT !.pc = "vexc"])
    /\ UNCHANGED <<groups_meta, meta_file, dirs, vstore, tasks, next_gid, next_rid, nreq>>

\* `except Exception: return False`
DG_VectorExcept(p) ==
    /\ proc[p].op = "delete_group" /\ proc[p].pc = "vexc"
    /\ Step(p, Idle("False", "vector error"))
    /\ UNCHANGED <<groups_meta, meta_file, dirs, vstore, tasks, next_gid, next_rid, nreq>>

\* the alternative the source comments on: go on to the metadata after a failed rmtree
DG_RmtreeFailed_Continue(p) == Step(p, [proc[p] EXCEPT !.pc = "delmeta"])

\* what delete_group_metadata_and_storage does when shutil.rmtree raised OSError
DG_RmtreeFailed(p) == Step(p, Idle("False", "rmtree failed"))

\* GroupManager.delete_group_metadata_and_storage, up to the directory removal:
\* a missing group is success; an existing directory is removed by shutil.rmtree,
\* which on OSError has removed some of the entries and leaves the directory
DG_Storage(p) ==
    /\ proc[p].op = "delete_group" /\ proc[p].pc = "storage"
    /\ LET g == proc[p].gid
           d == get_group_physical_path(g) IN
       IF ~get_group_by_id(g)
       THEN /\ Step(p, Idle("True", "not found"))
            /\ dirs' = dirs
       ELSE IF d \notin DOMAIN dirs
       THEN /\ Step(p, [proc[p] EXCEPT !.pc = "delmeta"])
            /\ dirs' = dirs
       ELSE \/ /\ dirs' = Remove(dirs, d)
               /\ Step(p, [proc[p] EXCEPT !.pc = "delmeta"])
            \/ /\ \E gone \in SUBSET (DOMAIN dirs[d]) :
                      dirs' = [dirs EXCEPT ![d] = [f \in DOMAIN dirs[d] \ gone |-> dirs[d][f]]]
               /\ DG_RmtreeFailed(p)
    /\ UNCHANGED <<groups_meta, meta_file, vstore, tasks, next_gid, next_rid, nreq>>

\* with self._lock: if group_id in self.groups_meta: del ...; self._save_meta()
DG_DelMeta(p) ==
    /\ proc[p].op = "delete_group" /\ proc[p].pc = "delmeta"
    /\ groups_meta' = IF proc[p].gid \in DOMAIN groups_meta
                      THEN Remove(groups_meta, proc[p].gid)
                      ELSE groups_meta
    /\ Step(p, Idle("True", ""))
    /\ meta_file' = save_meta(meta_file, groups_meta', "written")
    /\ UNCHANGED <<dirs, vstore, tasks, next_gid, next_rid, nreq>>

\* ------------------------------------------ GroupManager: records of a group
Files(g) == IF g \in DOMAIN groups_meta THEN groups_meta[g].files ELSE << >>

\* get_file_by_name(group_id, file_name) is not None
get_file_by_name(g, name) == \E i \in DOMAIN Files(g) : Files(g)[i].name = name

\* get_webpage_by_url(group_id, url) is not None
get_webpage_by_url(g, url) ==
    LET webpages == IF g \in DOMAIN groups_meta THEN groups_meta[g].webpages ELSE << >>
    IN \E i \in DOMAIN webpages : webpages[i].url = url

\* the record add_file_meta builds: a fresh uuid4, the given name, path, size, status
FileRecord(id, name, path, size, status) ==
    [id |-> id, name |-> name, path |-> path, size |-> size, status |-> status]

WebpageRecord(id, url, status) == [id |-> id, url |-> url, status |-> status]

\* add_file_meta(...) is not None: the only failure is a missing group
add_file_meta_ok(meta, g, name) == g \in DOMAIN meta

\* an add_file_meta that appends the record to the files of every group
add_file_meta_AllGroups(meta, g, rec) ==
    [h \in DOMAIN meta |-> [meta[h] EXCEPT !.files = Append(@, rec)]]

\* groups_meta after add_file_meta: the record is appended to the group's files
add_file_meta(meta, g, rec) ==
    IF add_file_meta_ok(meta, g, rec.name)
    THEN [meta EXCEPT ![g].files = Append(@, rec)]
    ELSE meta

add_webpage_meta_ok(meta, g, url) == g \in DOMAIN meta

add_webpage_meta(meta, g, rec) ==
    IF add_webpage_meta_ok(meta, g, rec.url)
    THEN [meta EXCEPT ![g].webpages = Append(@, rec)]
    ELSE meta

\* groups_meta after update_file_status: the status of the record with this id, if
\* group and record exist, and nothing else
update_file_status(meta, g, id, status) ==
    IF g \in DOMAIN meta
    THEN [meta EXCEPT ![g].files =
             [i \in DOMAIN @ |-> IF @[i].id = id THEN [@[i] EXCEPT !.status = status] ELSE @[i]]]
    ELSE meta

\* an update_webpage_status that adds the record it does not find
update_webpage_status_Upsert(meta, g, id, status) ==
    IF g \in DOMAIN meta
    THEN IF \E i \in DOMAIN meta[g].webpages : meta[g].webpages[i].id = id
         THEN [meta EXCEPT ![g].webpages =
                  [i \in DOMAIN @ |-> IF @[i].id = id THEN [@[i] EXCEPT !.status = status] ELSE @[i]]]
         ELSE [meta EXCEPT ![g].webpages = Append(@, [url |-> << >>, id |-> id, status |-> status])]
    ELSE meta

\* groups_meta after update_webpage_status: the same for the webpage records
update_webpage_status(meta, g, id, status) ==
    IF g \in DOMAIN meta
    THEN [meta EXCEPT ![g].webpages =
             [i \in DOMAIN @ |-> IF @[i].id = id THEN [@[i] EXCEPT !.status = status] ELSE @[i]]]
    ELSE meta

\* get_file_by_id(group_id, file_id) is not None
get_file_by_id(g, id) == \E i \in DOMAIN Files(g) : Files(g)[i].id = id

\* groups_meta after remove_file_meta: the group's files without the record of this id
remove_file_meta(meta, g, id) ==
    IF g \in DOMAIN meta
    THEN [meta EXCEPT ![g].files = SelectSeq(@, LAMBDA r : r.id # id)]
    ELSE meta

\* groups_meta after remove_webpage_meta
remove_webpage_meta(meta, g, id) ==
    IF g \in DOMAIN meta
    THEN [meta EXCEPT ![g].webpages = SelectSeq(@, LAMBDA r : r.id # id)]
    ELSE meta

\* group g of a catalog has a record with this id of the kind the operation deletes
HasRecord(meta, g, op, id) ==
    /\ g \in DOMAIN meta
    /\ LET recs == IF op = "delete_files" THEN meta[g].files ELSE meta[g].webpages IN
       \E i \in DOMAIN recs : recs[i].id = id

\* os.path.getsize of a blob
SizeOf(content) == IF content = "good" THEN 2 ELSE 1

\* os.path.exists(os.path.join(group_dir, storage_filename))
BlobExists(d, path) == d \in DOMAIN dirs /\ path \in DOMAIN dirs[d]

\* ------------------------------------------- routes.add_files_to_group (POST)
U_Call(p) ==
    /\ CanStart(p)
    /\ \E g \in GroupIds, n \in 1..MaxBatch :
          Step(p, [op |-> "upload", pc |-> "start", gid |-> g, n |-> n])
    /\ nreq' = nreq + 1
    /\ UNCHANGED <<groups_meta, meta_file, dirs, vstore, tasks, next_gid, next_rid>>

\* `for file in files:` at the head of iteration idx, with the files accepted so far
\* and the last warning or error logged; the files of a request are inputs, each drawn
\* when the loop reaches it: an original name and a blob content, parsable or not
U_Loop(p, dir, idx, added, log) ==
    IF idx > proc[p].n
    THEN Step(p, [op |-> "upload", pc |-> "dispatch", gid |-> proc[p].gid, n |-> proc[p].n,
                  added |-> added, log |-> log])
    ELSE \E f \in [name : FileNames, content : {"good", "corrupt"}] :
            Step(p, [op |-> "upload", pc |-> "check", gid |-> proc[p].gid, n |-> proc[p].n,
                     dir |-> dir, idx |-> idx, added |-> added, log |-> log, file |-> f])

\* group = get_group_by_id(group_id) -> 404; group_dir = get_group_physical_path
U_Start(p) ==
    /\ proc[p].op = "upload" /\ proc[p].pc = "start"
    /\ IF get_group_by_id(proc[p].gid)
       THEN U_Loop(p, get_group_physical_path(proc[p].gid), 1, << >>, "")
       ELSE Step(p, Idle("404", ""))
    /\ UNCHANGED <<groups_meta, meta_file, dirs, vstore, tasks, next_gid, next_rid, nreq>>

\* an upload loop that stores the file whether or not its name is known
U_AfterCheck_Overwrite(p, exists) ==
    Step(p, [op |-> "upload", pc |-> "probe", gid |-> proc[p].gid, n |-> proc[p].n,
             dir |-> proc[p].dir, idx |-> proc[p].idx, added |-> proc[p].added,
             log |-> proc[p].log, file |-> proc[p].file,
             storage |-> proc[p].file.name, counter |-> 1])

\* what the upload loop does with a file once get_file_by_name has answered
U_AfterCheck(p, exists) ==
    IF exists
    THEN U_Loop(p, proc[p].dir, proc[p].idx + 1, proc[p].added, "name exists")
    ELSE Step(p, [op |-> "upload", pc |-> "probe", gid |-> proc[p].gid, n |-> proc[p].n,
                  dir |-> proc[p].dir, idx |-> proc[p].idx, added |-> proc[p].added,
                  log |-> proc[p].log, file |-> proc[p].file,
                  storage |-> proc[p].file.name, counter |-> 1])

\* if get_file_by_name(group_id, original_filename): continue
U_Check(p) ==
    /\ proc[p].op = "upload" /\ proc[p].pc = "check"
    /\ U_AfterCheck(p, get_file_by_name(proc[p].gid, proc[p].file.name))
    /\ UNCHANGED <<groups_meta, meta_file, dirs, vstore, tasks, next_gid, next_rid, nreq>>

\* while os.path.exists(destination_path): storage_filename = base_counter.ext
U_Probe(p) ==
    /\ proc[p].op = "upload" /\ proc[p].pc = "probe"
    /\ IF BlobExists(proc[p].dir, proc[p].storage)
       \* f"{base_name}_{counter}{extension}"
       THEN Step(p, [proc[p] EXCEPT !.storage = Append(proc[p].file.name, proc[p].counter),
                                    !.counter = @ + 1])
       ELSE Step(p, [proc[p] EXCEPT !.pc = "save"])
    /\ UNCHANGED <<groups_meta, meta_file, dirs, vstore, tasks, next_gid, next_rid, nreq>>

\* file.save(destination_path); it raises when the directory is gone
U_Save(p) ==
    /\ proc[p].op = "upload" /\ proc[p].pc = "save"
    /\ IF proc[p].dir \in DOMAIN dirs
       THEN /\ dirs' = [dirs EXCEPT ![proc[p].dir] = Put(@, proc[p].storage, proc[p].file.content)]
            /\ Step(p, [proc[p] EXCEPT !.pc = "getsize"])
       ELSE /\ dirs' = dirs
            /\ U_Loop(p, proc[p].dir, proc[p].idx + 1, proc[p].added, "save failed")
    /\ UNCHANGED <<groups_meta, meta_file, vstore, tasks, next_gid, next_rid, nreq>>

\* file_size = os.path.getsize(destination_path); it raises when the blob is gone
U_GetSize(p) ==
    /\ proc[p].op = "upload" /\ proc[p].pc = "getsize"
    /\ IF BlobExists(proc[p].dir, proc[p].storage)
       THEN Step(p, [op |-> "upload", pc |-> "addmeta", gid |-> proc[p].gid, n |-> proc[p].n,
                     dir |-> proc[p].dir, idx |-> proc[p].idx, added |-> proc[p].added,
                     log |-> proc[p].log, file |-> proc[p].file, storage |-> proc[p].storage,
                     size |-> SizeOf(dirs[proc[p].dir][proc[p].storage])])
       ELSE U_Loop(p, proc[p].dir, proc[p].idx + 1, proc[p].added, "save failed")
    /\ UNCHANGED <<groups_meta, meta_file, dirs, vstore, tasks, next_gid, next_rid, nreq>>

\* meta = add_file_meta(group_id, original_filename, file_size, storage_filename,
\* status="processing"); if meta: added_files_meta.append(meta)
U_AddMeta(p) ==
    /\ proc[p].op = "upload" /\ proc[p].pc = "addmeta"
    /\ next_rid < MaxRecords
    /\ LET rec == FileRecord(next_rid + 1, proc[p].file.name, proc[p].storage,
                             proc[p].size, "processing") IN
       /\ next_rid' = next_rid + 1
       /\ groups_meta' = add_file_meta(groups_meta, proc[p].gid, rec)
       /\ IF add_file_meta_ok(groups_meta, proc[p].gid, rec.name)
          THEN U_Loop(p, proc[p].dir, proc[p].idx + 1, Append(proc[p].added, rec), proc[p].log)
          ELSE U_Loop(p, proc[p].dir, proc[p].idx + 1, proc[p].added, "no group")
    /\ meta_file' = save_meta(meta_file, groups_meta', "written")
    /\ UNCHANGED <<dirs, vstore, tasks, next_gid, nreq>>

\* threading.Thread(target=_index_..._task, args=(app, group_id, added)).start():
\* a background thread for the accepted items; none when nothing was accepted
Dispatch(kind, g, added) ==
    IF added = << >>
    THEN tasks
    ELSE Put(tasks, added[1].id,
             [kind |-> kind, gid |-> g, items |-> added, idx |-> 1,
              pc |-> IF kind = "files" THEN "start" ELSE "process",
              dir |-> NoId, nodes |-> {}])

U_Dispatch(p) ==
    /\ proc[p].op = "upload" /\ proc[p].pc = "dispatch"
    /\ tasks' = Dispatch("files", proc[p].gid, proc[p].added)
    /\ Step(p, Idle(IF proc[p].added = << >> THEN "200" ELSE "202", proc[p].log))
    /\ UNCHANGED <<groups_meta, meta_file, dirs, vstore, next_gid, next_rid, nreq>>

\* ---------------------------------------- routes.add_webpages_to_group (POST)
WA_Call(p) ==
    /\ CanStart(p)
    /\ \E g \in GroupIds, n \in 1..MaxBatch :
          Step(p, [op |-> "add_webpages", pc |-> "start", gid |-> g, n |-> n])
    /\ nreq' = nreq + 1
    /\ UNCHANGED <<groups_meta, meta_file, dirs, vstore, tasks, next_gid, next_rid>>

\* `for url in data.urls:` at the head of iteration idx
WA_Loop(p, idx, added, log) ==
    IF idx > proc[p].n
    THEN Step(p, [op |-> "add_webpages", pc |-> "dispatch", gid |-> proc[p].gid,
                  n |-> proc[p].n, added |-> added, log |-> log])
    ELSE \E u \in Urls :
            Step(p, [op |-> "add_webpages", pc |-> "check", gid |-> proc[p].gid,
                     n |-> proc[p].n, idx |-> idx, added |-> added, log |-> log, url |-> u])

\* if not get_group_by_id(group_id): 404
WA_Start(p) ==
    /\ proc[p].op = "add_webpages" /\ proc[p].pc = "start"
    /\ IF get_group_by_id(proc[p].gid)
       THEN WA_Loop(p, 1, << >>, "")
       ELSE Step(p, Idle("404", ""))
    /\ UNCHANGED <<groups_meta, meta_file, dirs, vstore, tasks, next_gid, next_rid, nreq>>

\* if get_webpage_by_url(group_id, url): continue
WA_Check(p) ==
    /\ proc[p].op = "add_webpages" /\ proc[p].pc = "check"
    /\ IF get_webpage_by_url(proc[p].gid, proc[p].url)
       THEN WA_Loop(p, proc[p].idx + 1, proc[p].added, "url exists")
       ELSE Step(p, [proc[p] EXCEPT !.pc = "addmeta"])
    /\ UNCHANGED <<groups_meta, meta_file, dirs, vstore, tasks, next_gid, next_rid, nreq>>

\* meta = add_webpage_meta(group_id, url, status="processing"); if meta: append
WA_AddMeta(p) ==
    /\ proc[p].op = "add_webpages" /\ proc[p].pc = "addmeta"
    /\ next_rid < MaxRecords
    /\ LET rec == WebpageRecord(next_rid + 1, proc[p].url, "processing") IN
       /\ next_rid' = next_rid + 1
       /\ groups_meta' = add_webpage_meta(groups_meta, proc[p].gid, rec)
       /\ IF add_webpage_meta_ok(groups_meta, proc[p].gid, rec.url)
          THEN WA_Loop(p, proc[p].idx + 1, Append(proc[p].added, rec), proc[p].log)
          ELSE WA_Loop(p, proc[p].idx + 1, proc[p].added, "no group")
    /\ meta_file' = save_meta(meta_file, groups_meta', "written")
    /\ UNCHANGED <<dirs, vstore, tasks, next_gid, nreq>>

WA_Dispatch(p) ==
    /\ proc[p].op = "add_webpages" /\ proc[p].pc = "dispatch"
    /\ tasks' = Dispatch("web", proc[p].gid, proc[p].added)
    /\ Step(p, Idle(IF proc[p].added = << >> THEN "200" ELSE "202", proc[p].log))
    /\ UNCHANGED <<groups_meta, meta_file, dirs, vstore, next_gid, next_rid, nreq>>

\* ------------------------------------------------ DataProcessor.process_data
\* a node after _clean_and_normalize and _generate_stable_node_ids: its text and the
\* allow-listed metadata (an absent key is NoId); its id is the hash of exactly these
Node(g, file_name, file_id, webpage_id, text) ==
    [group_id |-> g, file_name |-> file_name, file_id |-> file_id,
     webpage_id |-> webpage_id, text |-> text]

\* process_data(group_id, files_meta=[item]) for a blob holding `content` ("" when the
\* blob is missing): the parsers name the chunk after the stored file, file_id is
\* back-filled when the record's name equals that name; a failing parse is caught in
\* _load_from_directory_files and yields no document
ProcessFile(g, item, content) ==
    IF content = "good"
    THEN {Node(g, item.path, IF item.name = item.path THEN item.id ELSE NoId, NoId, content)}
    ELSE {}

\* process_data(group_id, webpages_meta=[item]): _load_from_web tags the documents it
\* fetched; a failing fetch is caught there and yields no document
ProcessWebpage(g, item, fetched) ==
    IF fetched
    THEN {Node(g, item.url, NoId, item.id, "page")}
    ELSE {}

\* ----------------------------- routes._index_files_task / _index_webpages_task
\* a background thread is named by the id of the first record of its batch
SetTask(k, u) == tasks' = [tasks EXCEPT ![k] = u]

EndTask(k) == tasks' = Remove(tasks, k)

Running(k, pc) == k \in DOMAIN tasks /\ tasks[k].pc = pc

Item(k) == tasks[k].items[tasks[k].idx]

\* a task that retries its current item instead of moving on
NextItem_Retry(k) ==
    SetTask(k, [tasks[k] EXCEPT !.nodes = {},
                   !.pc = IF tasks[k].kind = "files" THEN "exists" ELSE "process"])

\* the task at the head of the next iteration, or ended after the last item
NextItem(k) ==
    IF tasks[k].idx = Len(tasks[k].items)
    THEN EndTask(k)
    ELSE SetTask(k, [tasks[k] EXCEPT !.idx = @ + 1, !.nodes = {},
                        !.pc = IF tasks[k].kind = "files" THEN "exists" ELSE "process"])

\* the status update a task makes for its current item
UpdateStatus(k, status) ==
    IF tasks[k].kind = "files"
    THEN update_file_status(groups_meta, tasks[k].gid, Item(k).id, status)
    ELSE update_webpage_status(groups_meta, tasks[k].gid, Item(k).id, status)

\* group_dir = get_group_physical_path(group_id); without it the task ends
T_Start(k) ==
    /\ Running(k, "start")
    /\ IF get_group_by_id(tasks[k].gid)
       THEN SetTask(k, [tasks[k] EXCEPT !.pc = "exists",
                                        !.dir = get_group_physical_path(tasks[k].gid)])
       ELSE EndTask(k)
    /\ UNCHANGED <<groups_meta, meta_file, dirs, vstore, proc, next_gid, next_rid, nreq>>

\* if not os.path.exists(file_path): ... "failed"; continue
T_Exists(k) ==
    /\ Running(k, "exists")
    /\ IF BlobExists(tasks[k].dir, Item(k).path)
       THEN SetTask(k, [tasks[k] EXCEPT !.pc = "process"])
       ELSE SetTask(k, [tasks[k] EXCEPT !.pc = "missing"])
    /\ UNCHANGED <<groups_meta, meta_file, dirs, vstore, proc, next_gid, next_rid, nreq>>

\* a task that ends when process_data has returned no node
AfterProcess_GiveUp(k, nodes) ==
    IF nodes = {}
    THEN EndTask(k)
    ELSE SetTask(k, [tasks[k] EXCEPT !.pc = "insert", !.nodes = nodes])

\* the task once process_data has returned `nodes`: `if nodes: insert_nodes(nodes)`,
\* then the status update
AfterProcess(k, nodes) ==
    IF nodes = {}
    THEN SetTask(k, [tasks[k] EXCEPT !.pc = "complete"])
    ELSE SetTask(k, [tasks[k] EXCEPT !.pc = "insert", !.nodes = nodes])

\* nodes = process_data(group_id, files_meta=[file_meta_with_path])
T_ProcessFile(k) ==
    /\ Running(k, "process") /\ tasks[k].kind = "files"
    /\ AfterProcess(k, ProcessFile(tasks[k].gid, Item(k),
                                   IF BlobExists(tasks[k].dir, Item(k).path)
                                   THEN dirs[tasks[k].dir][Item(k).path] ELSE ""))
    /\ UNCHANGED <<groups_meta, meta_file, dirs, vstore, proc, next_gid, next_rid, nreq>>

\* nodes = process_data(group_id, webpages_meta=[page_meta]); the fetch may fail
T_ProcessWebpage(k) ==
    /\ Running(k, "process") /\ tasks[k].kind = "web"
    /\ \E fetched \in BOOLEAN : AfterProcess(k, ProcessWebpage(tasks[k].gid, Item(k), fetched))
    /\ UNCHANGED <<groups_meta, meta_file, dirs, vstore, proc, next_gid, next_rid, nreq>>

\* pipeline.index.insert_nodes(nodes); it may raise (embedding, vector store)
T_Insert(k) ==
    /\ Running(k, "insert")
    /\ \/ /\ vstore' = vstore \cup tasks[k].nodes
          /\ SetTask(k, [tasks[k] EXCEPT !.pc = "complete"])
       \/ /\ vstore' = vstore
          /\ SetTask(k, [tasks[k] EXCEPT !.pc = "except"])
    /\ UNCHANGED <<groups_meta, meta_file, dirs, proc, next_gid, next_rid, nreq>>

\* update_file_status / update_webpage_status(group_id, id, "completed")
T_Complete(k) ==
    /\ Running(k, "complete")
    /\ groups_meta' = UpdateStatus(k, "completed")
    /\ NextItem(k)
    /\ meta_file' = save_meta(meta_file, groups_meta', "written")
    /\ UNCHANGED <<dirs, vstore, proc, next_gid, next_rid, nreq>>

\* a task that gives up its batch at the first failing item
ItemFailed_Abort(k) ==
    /\ groups_meta' = UpdateStatus(k, "failed")
    /\ EndTask(k)

\* what the task does after the failure of its current item: the item is marked
\* failed and the loop goes on with the next one
ItemFailed(k) ==
    /\ groups_meta' = UpdateStatus(k, "failed")
    /\ NextItem(k)

\* the missing blob: update_file_status(group_id, file_id, "failed"); continue
T_Missing(k) ==
    /\ Running(k, "missing")
    /\ ItemFailed(k)
    /\ meta_file' = save_meta(meta_file, groups_meta', "written")
    /\ UNCHANGED <<dirs, vstore, proc, next_gid, next_rid, nreq>>

\* except Exception: update_file_status / update_webpage_status(..., "failed")
T_Except(k) ==
    /\ Running(k, "except")
    /\ ItemFailed(k)
    /\ meta_file' = save_meta(meta_file, groups_meta', "written")
    /\ UNCHANGED <<dirs, vstore, proc, next_gid, next_rid, nreq>>

\* --------------------------------------- RAGPipeline.delete_files_from_group
DF_Call(p) ==
    /\ CanStart(p)
    /\ \E g \in GroupIds, n \in 1..MaxBatch :
          Step(p, [op |-> "delete_files", pc |-> "start", gid |-> g, n |-> n])
    /\ nreq' = nreq + 1
    /\ UNCHANGED <<groups_meta, meta_file, dirs, vstore, tasks, next_gid, next_rid>>

\* `for file_id in file_ids:` at the head of iteration idx, with all_success and the
\* last warning or error logged; after the last id, `return all_success`
DF_Loop(p, idx, all_success, log) ==
    IF idx > proc[p].n
    THEN Step(p, Idle(IF all_success THEN "True" ELSE "False", log))
    ELSE \E id \in RecordIds :
            Step(p, [op |-> "delete_files", pc |-> "lookup", gid |-> proc[p].gid,
                     n |-> proc[p].n, idx |-> idx, all_success |-> all_success,
                     log |-> log, id |-> id])

\* the route: if not get_group_by_id(group_id): 404
DF_Start(p) ==
    /\ proc[p].op = "delete_files" /\ proc[p].pc = "start"
    /\ IF get_group_by_id(proc[p].gid)
       THEN DF_Loop(p, 1, TRUE, "")
       ELSE Step(p, Idle("404", ""))
    /\ UNCHANGED <<groups_meta, meta_file, dirs, vstore, tasks, next_gid, next_rid, nreq>>

\* file_meta = get_file_by_id(group_id, file_id); if not file_meta: continue
DF_Lookup(p) ==
    /\ proc[p].op = "delete_files" /\ proc[p].pc = "lookup"
    /\ IF get_file_by_id(proc[p].gid, proc[p].id)
       THEN LET files == Files(proc[p].gid)
                found == files[CHOOSE i \in DOMAIN files : files[i].id = proc[p].id]
            IN Step(p, [op |-> "delete_files", pc |-> "vdelete", gid |-> proc[p].gid,
                        n |-> proc[p].n, idx |-> proc[p].idx,
                        all_success |-> proc[p].all_success, log |-> proc[p].log,
                        id |-> proc[p].id, file_meta |-> found])
       ELSE DF_Loop(p, proc[p].idx + 1, proc[p].all_success, "not found")
    /\ UNCHANGED <<groups_meta, meta_file, dirs, vstore, tasks, next_gid, next_rid, nreq>>

\* a delete loop that gives up the request at the first failing id
DF_ItemFailed_Abort(p, err) == Step(p, Idle("False", err))

\* `except Exception: all_success = False`, and on to the next id
DF_ItemFailed(p, err) == DF_Loop(p, proc[p].idx + 1, FALSE, err)

\* 1. chroma_collection.delete(where={"file_id": file_id}); it may raise
DF_VectorDelete(p) ==
    /\ proc[p].op = "delete_files" /\ proc[p].pc = "vdelete"
    /\ \/ /\ vstore' = {n \in vstore : n.file_id # proc[p].id}
          /\ Step(p, [proc[p] EXCEPT !.pc = "blob"])
       \/ /\ vstore' = vstore
          /\ DF_ItemFailed(p, "vector error")
    /\ UNCHANGED <<groups_meta, meta_file, dirs, tasks, next_gid, next_rid, nreq>>

\* a delete loop that goes on to the catalog although os.remove raised
DF_RemoveFailed_Continue(p) == Step(p, [proc[p] EXCEPT !.pc = "meta"])

\* what the loop does with its current id when os.remove raised
DF_RemoveFailed(p) == DF_ItemFailed(p, "remove error")

\* 2. if group_physical_path and os.path.exists(file_to_delete): os.remove(...)
DF_RemoveBlob(p) ==
    /\ proc[p].op = "delete_files" /\ proc[p].pc = "blob"
    /\ LET d == get_group_physical_path(proc[p].gid)
           path == proc[p].file_meta.path IN
       IF d # NoId /\ BlobExists(d, path)
       THEN \/ /\ dirs' = [dirs EXCEPT ![d] = Remove(@, path)]
               /\ Step(p, [proc[p] EXCEPT !.pc = "meta"])
            \/ /\ dirs' = dirs
               /\ DF_RemoveFailed(p)
       ELSE /\ dirs' = dirs
            /\ Step(p, [proc[p] EXCEPT !.pc = "meta"])
    /\ UNCHANGED <<groups_meta, meta_file, vstore, tasks, next_gid, next_rid, nreq>>

\* 3. group_manager.remove_file_meta(group_id, file_id)
DF_RemoveMeta(p) ==
    /\ proc[p].op = "delete_files" /\ proc[p].pc = "meta"
    /\ groups_meta' = remove_file_meta(groups_meta, proc[p].gid, proc[p].id)
    /\ meta_file' = save_meta(meta_file, groups_meta', "written")
    /\ DF_Loop(p, proc[p].idx + 1, proc[p].all_success, proc[p].log)
    /\ UNCHANGED <<dirs, vstore, tasks, next_gid, next_rid, nreq>>

\* ------------------------------------ RAGPipeline.delete_webpages_from_group
DW_Call(p) ==
    /\ CanStart(p)
    /\ \E g \in GroupIds, n \in 1..MaxBatch :
          Step(p, [op |-> "delete_webpages", pc |-> "start", gid |-> g, n |-> n])
    /\ nreq' = nreq + 1
    /\ UNCHANGED <<groups_meta, meta_file, dirs, vstore, tasks, next_gid, next_rid>>

\* `for page_id in webpage_ids:` at the head of iteration idx
DW_Loop(p, idx, all_success, log) ==
    IF idx > proc[p].n
    THEN Step(p, Idle(IF all_success THEN "True" ELSE "False", log))
    ELSE \E id \in RecordIds :
            Step(p, [op |-> "delete_webpages", pc |-> "vdelete", gid |-> proc[p].gid,
                     n |-> proc[p].n, idx |-> idx, all_success |-> all_success,
                     log |-> log, id |-> id])

\* the route: if not get_group_by_id(group_id): 404
DW_Start(p) ==
    /\ proc[p].op = "delete_webpages" /\ proc[p].pc = "start"
    /\ IF get_group_by_id(proc[p].gid)
       THEN DW_Loop(p, 1, TRUE, "")
       ELSE Step(p, Idle("404", ""))
    /\ UNCHANGED <<groups_meta, meta_file, dirs, vstore, tasks, next_gid, next_rid, nreq>>

\* 1. chroma_collection.delete(where={"webpage_id": page_id}); it may raise
DW_VectorDelete(p) ==
    /\ proc[p].op = "delete_webpages" /\ proc[p].pc = "vdelete"
    /\ \/ /\ vstore' = {n \in vstore : n.webpage_id # proc[p].id}
          /\ Step(p, [proc[p] EXCEPT !.pc = "meta"])
       \* `except Exception: all_success = False`, and on to the next id
       \/ /\ vstore' = vstore
          /\ DW_Loop(p, proc[p].idx + 1, FALSE, "vector error")
    /\ UNCHANGED <<groups_meta, meta_file, dirs, tasks, next_gid, next_rid, nreq>>

\* 2. group_manager.remove_webpage_meta(group_id, page_id)
DW_RemoveMeta(p) ==
    /\ proc[p].op = "delete_webpages" /\ proc[p].pc = "meta"
    /\ groups_meta' = remove_webpage_meta(groups_meta, proc[p].gid, proc[p].id)
    /\ meta_file' = save_meta(meta_file, groups_meta', "written")
    /\ DW_Loop(p, proc[p].idx + 1, proc[p].all_success, proc[p].log)
    /\ UNCHANGED <<dirs, vstore, tasks, next_gid, next_rid, nreq>>

Background(k) ==
    \/ T_Start(k)
    \/ T_Exists(k)
    \/ T_ProcessFile(k)
    \/ T_ProcessWebpage(k)
    \/ T_Insert(k)
    \/ T_Complete(k)
    \/ T_Missing(k)
    \/ T_Except(k)

Next ==
    \/ \E p \in Procs :
        \/ CG_Call(p)
        \/ CG_Check(p)
        \/ CG_Mkdir(p)
        \/ CG_Insert(p)
        \/ DG_Call(p)
        \/ DG_Start(p)
        \/ DG_VectorDelete(p)
        \/ DG_Verify(p)
        \/ DG_VectorExcept(p)
        \/ DG_Storage(p)
        \/ DG_DelMeta(p)
        \/ U_Call(p)
        \/ U_Start(p)
        \/ U_Check(p)
        \/ U_Probe(p)
        \/ U_Save(p)
        \/ U_GetSize(p)
        \/ U_AddMeta(p)
        \/ U_Dispatch(p)
        \/ WA_Call(p)
        \/ WA_Start(p)
        \/ WA_Check(p)
        \/ WA_AddMeta(p)
        \/ WA_Dispatch(p)
    \/ \E k \in RecordIds : Background(k)

Spec == Init /\ [][Next]_vars

\* ------------------------------------------- the sources of existing groups
\* the groups have been created: each has its catalog entry and its empty directory,
\* and the requests that made them count against MaxRequests
InitSources ==
    /\ groups_meta = [g \in GroupIds |->
                         [name |-> IF g = 1 THEN "astronomy" ELSE "physics",
                          directory |-> g, files |-> << >>, webpages |-> << >>]]
    /\ meta_file = CatalogFile(groups_meta)
    /\ dirs = [g \in GroupIds |-> << >>]
    /\ vstore = {}
    /\ proc = [p \in Procs |-> Idle("none", "")]
    /\ tasks = << >>
    /\ next_gid = MaxGroups
    /\ next_rid = 0
    /\ nreq = MaxRequests - MaxSourceRequests

NextSources ==
    \/ \E p \in Procs :
        \/ U_Call(p)
        \/ U_Start(p)
        \/ U_Check(p)
        \/ U_Probe(p)
        \/ U_Save(p)
        \/ U_GetSize(p)
        \/ U_AddMeta(p)
        \/ U_Dispatch(p)
        \/ WA_Call(p)
        \/ WA_Start(p)
        \/ WA_Check(p)
        \/ WA_AddMeta(p)
        \/ WA_Dispatch(p)
        \/ DF_Call(p)
        \/ DF_Start(p)
        \/ DF_Lookup(p)
        \/ DF_VectorDelete(p)
        \/ DF_RemoveBlob(p)
        \/ DF_RemoveMeta(p)
        \/ DW_Call(p)
        \/ DW_Start(p)
        \/ DW_VectorDelete(p)
        \/ DW_RemoveMeta(p)
    \/ \E k \in RecordIds : Background(k)

\* uploads, additions, index tasks and deletes on the sources of existing groups
SpecSources == InitSources /\ [][NextSources]_vars

\* ------------------------------------------- GroupManager, called by one thread
\* the outcomes of open(path, "w") and json.dump in _save_meta
SaveOutcomes == {"written", "open failed", "truncated"}

\* `except IOError: logging.error(...)` in _save_meta
SaveLog(outcome) == IF outcome = "written" THEN "" ELSE "save failed"

\* the calls come from one thread, which holds no call in between
GM_Caller(p) == proc[p].op = "idle" /\ \A q \in Procs : q < p => proc[q].op # "idle"

GM_create_group(p) ==
    /\ GM_Caller(p)
    /\ next_gid < MaxGroups
    /\ \E name \in GroupNames, made \in BOOLEAN, outcome \in SaveOutcomes :
          IF name \in get_all_group_names
          THEN /\ Step(p, Idle("None", "name exists"))
               /\ UNCHANGED <<groups_meta, meta_file, dirs, next_gid>>
          ELSE /\ next_gid' = next_gid + 1
               /\ IF made
                  THEN /\ dirs' = Put(dirs, next_gid + 1, << >>)
                       /\ groups_meta' = Put(groups_meta, next_gid + 1,
                                             [name |-> name, directory |-> next_gid + 1,
                                              files |-> << >>, webpages |-> << >>])
                       /\ meta_file' = save_meta(meta_file, groups_meta', outcome)
                       /\ Step(p, Idle("group", SaveLog(outcome)))
                  ELSE /\ Step(p, Idle("None", "mkdir failed"))
                       /\ UNCHANGED <<groups_meta, meta_file, dirs>>
    /\ UNCHANGED <<vstore, tasks, next_rid, nreq>>

GM_add_file_meta(p) ==
    /\ GM_Caller(p)
    /\ next_rid < MaxRecords
    /\ \E g \in GroupIds, name \in FileNames, outcome \in SaveOutcomes :
          IF add_file_meta_ok(groups_meta, g, name)
          THEN /\ groups_meta' = add_file_meta(groups_meta, g,
                                     FileRecord(next_rid + 1, name, name, SizeOf("good"),
                                                "processing"))
               /\ meta_file' = save_meta(meta_file, groups_meta', outcome)
               /\ next_rid' = next_rid + 1
               /\ Step(p, Idle("record", SaveLog(outcome)))
          ELSE /\ Step(p, Idle("None", "no group"))
               /\ UNCHANGED <<groups_meta, meta_file, next_rid>>
    /\ UNCHANGED <<dirs, vstore, tasks, next_gid, nreq>>

GM_add_webpage_meta(p) ==
    /\ GM_Caller(p)
    /\ next_rid < MaxRecords
    /\ \E g \in GroupIds, url \in Urls, outcome \in SaveOutcomes :
          IF add_webpage_meta_ok(groups_meta, g, url)
          THEN /\ groups_meta' = add_webpage_meta(groups_meta, g,
                                     WebpageRecord(next_rid + 1, url, "processing"))
               /\ meta_file' = save_meta(meta_file, groups_meta', outcome)
               /\ next_rid' = next_rid + 1
               /\ Step(p, Idle("record", SaveLog(outcome)))
          ELSE /\ Step(p, Idle("None", "no group"))
               /\ UNCHANGED <<groups_meta, meta_file, next_rid>>
    /\ UNCHANGED <<dirs, vstore, tasks, next_gid, nreq>>

\* update_file_status / update_webpage_status: the catalog is saved, and True returned,
\* when the record was found
GM_update_status(p) ==
    /\ GM_Caller(p)
    /\ \E g \in GroupIds, id \in RecordIds, status \in {"completed", "failed"},
          op \in {"delete_files", "delete_webpages"}, outcome \in SaveOutcomes :
          IF HasRecord(groups_meta, g, op, id)
          THEN /\ groups_meta' = IF op = "delete_files"
                                 THEN update_file_status(groups_meta, g, id, status)
                                 ELSE update_webpage_status(groups_meta, g, id, status)
               /\ meta_file' = save_meta(meta_file, groups_meta', outcome)
               /\ Step(p, Idle("True", SaveLog(outcome)))
          ELSE /\ Step(p, Idle("False", ""))
               /\ UNCHANGED <<groups_meta, meta_file>>
    /\ UNCHANGED <<dirs, vstore, tasks, next_gid, next_rid, nreq>>

\* remove_file_meta / remove_webpage_meta: saved, and True, when a record was removed
GM_remove_meta(p) ==
    /\ GM_Caller(p)
    /\ \E g \in GroupIds, id \in RecordIds, op \in {"delete_files", "delete_webpages"},
          outcome \in SaveOutcomes :
          IF HasRecord(groups_meta, g, op, id)
          THEN /\ groups_meta' = IF op = "delete_files"
                                 THEN remove_file_meta(groups_meta, g, id)
                                 ELSE remove_webpage_meta(groups_meta, g, id)
               /\ meta_file' = save_meta(meta_file, groups_meta', outcome)
               /\ Step(p, Idle("True", SaveLog(outcome)))
          ELSE /\ Step(p, Idle("False", ""))
               /\ UNCHANGED <<groups_meta, meta_file>>
    /\ UNCHANGED <<dirs, vstore, tasks, next_gid, next_rid, nreq>>

GM_delete_group_metadata_and_storage(p) ==
    /\ GM_Caller(p)
    /\ \E g \in GroupIds, removed \in BOOLEAN, outcome \in SaveOutcomes :
          IF ~get_group_by_id(g)
          THEN /\ Step(p, Idle("True", "not found"))
               /\ UNCHANGED <<groups_meta, meta_file, dirs>>
          ELSE IF get_group_physical_path(g) \in DOMAIN dirs /\ ~removed
          THEN /\ Step(p, Idle("False", "rmtree failed"))
               /\ UNCHANGED <<groups_meta, meta_file, dirs>>
          ELSE /\ dirs' = Remove(dirs, get_group_physical_path(g))
               /\ groups_meta' = Remove(groups_meta, g)
               /\ meta_file' = save_meta(meta_file, groups_meta', outcome)
               /\ Step(p, Idle("True", SaveLog(outcome)))
    /\ UNCHANGED <<vstore, tasks, next_gid, next_rid, nreq>>

NextCatalog ==
    \E p \in Procs :
        \/ GM_create_group(p)
        \/ GM_add_file_meta(p)
        \/ GM_add_webpage_meta(p)
        \/ GM_update_status(p)
        \/ GM_remove_meta(p)
        \/ GM_delete_group_metadata_and_storage(p)

\* the catalog and its file under a sequence of GroupManager calls
SpecCatalog == Init /\ [][NextCatalog]_vars

\* ------------------------------------ DataProcessor._generate_stable_node_ids
MaxNodes == 2        \* nodes in one batch handed to _generate_stable_node_ids

\* the metadata keys of the nodes, in the order in which sorted() puts them
KeyOrder == <<"file_name", "group_id">>

KeyRank(k) == CHOOSE i \in DOMAIN KeyOrder : KeyOrder[i] = k

\* a _generate_stable_node_ids that joins the items in insertion order
sorted_InsertionOrder(items) == items

\* sorted(node.metadata.items()): the items by key
RECURSIVE sorted(_)
sorted(items) ==
    IF items = << >>
    THEN << >>
    ELSE LET x == Head(items)
             rest == sorted(Tail(items))
         IN SelectSeq(rest, LAMBDA y : KeyRank(y[1]) < KeyRank(x[1]))
            \o <<x>>
            \o SelectSeq(rest, LAMBDA y : ~(KeyRank(y[1]) < KeyRank(x[1])))

\* content_for_hash = f"{node.text}|{metadata_str}", metadata_str the sorted items
content_for_hash(node) == <<node.text, sorted(node.metadata)>>

\* hashlib.sha256(...).hexdigest(), taken to be free of collisions: the digest stands
\* for the content it was computed from
sha256(content) == content

generate_stable_node_ids(nodes) ==
    [i \in DOMAIN nodes |-> [nodes[i] EXCEPT !.id_ = sha256(content_for_hash(nodes[i]))]]

\* a thread calls _generate_stable_node_ids(nodes); the nodes handed in have a text, a
\* metadata dict (its items in insertion order, no key twice) and the id the node parser
\* gave them
GSI_Call(p) ==
    /\ proc[p].op = "idle"
    /\ \A q \in Procs : q < p => proc[q].op # "idle"
    /\ LET Items == {<<KeyOrder[i], "v">> : i \in DOMAIN KeyOrder}
           MetadataDicts ==
               {md \in UNION {[1..n -> Items] : n \in 0..Len(KeyOrder)} :
                   \A i, j \in DOMAIN md : i # j => md[i][1] # md[j][1]}
           InputNodes ==
               [text : {"t1", "t2"}, metadata : MetadataDicts, id_ : {"uuid-1", "uuid-2"}]
       IN \E n \in 1..MaxNodes : \E nodes \in [1..n -> InputNodes] :
             Step(p, [op |-> "generate_stable_node_ids", pc |-> "run", given |-> nodes])
    /\ UNCHANGED <<groups_meta, meta_file, dirs, vstore, tasks, next_gid, next_rid, nreq>>

\* the loop over the nodes; the thread then holds the list returned
GSI_Generate(p) ==
    /\ proc[p].op = "generate_stable_node_ids" /\ proc[p].pc = "run"
    /\ Step(p, [op |-> "generate_stable_node_ids", pc |-> "done", given |-> proc[p].given,
                nodes |-> generate_stable_node_ids(proc[p].given)])
    /\ UNCHANGED <<groups_meta, meta_file, dirs, vstore, tasks, next_gid, next_rid, nreq>>

NextNodeIds == \E p \in Procs : GSI_Call(p) \/ GSI_Generate(p)

\* runs of _generate_stable_node_ids on batches of nodes
SpecNodeIds == Init /\ [][NextNodeIds]_vars

\* ------------------------------------------------- PDFParser.extract_chunks
MaxPages == 3        \* pages of one PDF

\* self.config.get('min_page_text_length', 50)
DefaultMinPageTextLength == 50

\* DataProcessor.parser_config, the dict handed to the parsers (chunk_size and
\* chunk_overlap, which PDFParser does not read, left out)
parser_config(MIN_CHUNK_LENGTH) == [k \in {"min_chunk_length"} |-> MIN_CHUNK_LENGTH]

\* PDFParser.__init__: self.min_page_text_length = self.config.get(key, default)
min_page_text_length(config) ==
    IF "min_page_text_length" \in DOMAIN config
    THEN config["min_page_text_length"]
    ELSE DefaultMinPageTextLength

\* _extract_chunks_pdfplumber: one chunk per page kept, in page order; a page whose
\* extract_text did not raise is kept when
\* `page_text and len(page_text.strip()) >= self.min_page_text_length`
extract_chunks_pdfplumber(pages, config) ==
    LET KeepsPage(page) ==
            /\ page.kind = "text"
            /\ page.len + page.pad > 0
            /\ page.len >= min_page_text_length(config)
        kept == SelectSeq([i \in DOMAIN pages |-> i], LAMBDA i : KeepsPage(pages[i]))
    IN [k \in DOMAIN kept |->
           [page_label |-> ToString(kept[k]), page_number |-> kept[k],
            chunk_type |-> "page", len |-> pages[kept[k]].len]]

\* parser_factory.create_parser(file_path, self.parser_config) for a PDF, under a value
\* of RAGConfig.MIN_CHUNK_LENGTH; page.extract_text() raises, or returns None, or a text,
\* of which `len` characters are left by strip() and `pad` characters are white space
PDF_Call(p) ==
    /\ \A q \in Procs : proc[q].op = "idle" /\ p <= q
    /\ LET MinChunkLengths == {10, 50, 60}
           Pages == [kind : {"text"}, len : {0, 10, 49, 50, 60}, pad : {0, 1}]
                    \cup [kind : {"none", "raises"}, len : {0}, pad : {0}]
       IN \E m \in MinChunkLengths, n \in 1..MaxPages : \E pages \in [1..n -> Pages] :
             Step(p, [op |-> "extract_chunks", pc |-> "run", MIN_CHUNK_LENGTH |-> m,
                      config |-> parser_config(m), pages |-> pages])
    /\ UNCHANGED <<groups_meta, meta_file, dirs, vstore, tasks, next_gid, next_rid, nreq>>

\* chunks = parser.extract_chunks(file_path)
PDF_Extract(p) ==
    /\ proc[p].op = "extract_chunks" /\ proc[p].pc = "run"
    /\ Step(p, [op |-> "extract_chunks", pc |-> "done",
                MIN_CHUNK_LENGTH |-> proc[p].MIN_CHUNK_LENGTH,
                config |-> proc[p].config, pages |-> proc[p].pages,
                chunks |-> extract_chunks_pdfplumber(proc[p].pages, proc[p].config)])
    /\ UNCHANGED <<groups_meta, meta_file, dirs, vstore, tasks, next_gid, next_rid, nreq>>

\* the chunks go back to _load_file_with_advanced_parser
PDF_Return(p) ==
    /\ proc[p].op = "extract_chunks" /\ proc[p].pc = "done"
    /\ Step(p, Idle("chunks", ""))
    /\ UNCHANGED <<groups_meta, meta_file, dirs, vstore, tasks, next_gid, next_rid, nreq>>

NextPdf == \E p \in Procs : PDF_Call(p) \/ PDF_Extract(p) \/ PDF_Return(p)

\* chunk extraction from PDFs under the configurations of the DataProcessor
SpecPdf == Init /\ [][NextPdf]_vars

\* ------------------------------------------------ FormatDetector.detect_format
\* the value None returned for a file that is not recognised
NoFormat == "None"

\* FormatDetector.SUPPORTED_FORMATS
SUPPORTED_FORMATS ==
    [e \in {".pdf", ".docx", ".doc", ".pptx", ".ppt", ".xlsx", ".xls", ".epub",
            ".html", ".htm", ".md", ".markdown", ".txt"} |->
        CASE e = ".pdf" -> "pdf"
          [] e = ".docx" -> "docx"
          [] e = ".doc" -> "doc"
          [] e = ".pptx" -> "pptx"
          [] e = ".ppt" -> "ppt"
          [] e = ".xlsx" -> "xlsx"
          [] e = ".xls" -> "xls"
          [] e = ".epub" -> "epub"
          [] e \in {".html", ".htm"} -> "html"
          [] e \in {".md", ".markdown"} -> "markdown"
          [] OTHER -> "text"]

\* the signatures, bytes written as characters or as two hexadecimal digits
SigZip == <<"P", "K", "03", "04">>
SigOle == <<"d0", "cf", "11", "e0", "a1", "b1", "1a", "e1">>
SigOleShort == <<"d0", "cf", "11", "e0">>

\* FormatDetector.FILE_SIGNATURES, in the order in which the dict is iterated
FILE_SIGNATURES ==
    << <<(<<"%", "P", "D", "F">>), "pdf">>,
       <<SigZip, "office_zip">>,
       <<SigOle, "office_ole">>,
       <<(<<"<", "!", "D", "O", "C", "T", "Y", "P", "E", " ", "h", "t", "m", "l">>), "html">>,
       <<(<<"<", "h", "t", "m", "l">>), "html">>,
       <<(<<"<", "H", "T", "M", "L">>), "html">> >>

\* header.startswith(signature)
startswith(header, signature) ==
    Len(header) >= Len(signature) /\ SubSeq(header, 1, Len(signature)) = signature

\* Path.suffix.lower(), on the suffixes of the files detected
lower(suffix) ==
    CASE suffix = ".DOCX" -> ".docx"
      [] suffix = ".BIN" -> ".bin"
      [] OTHER -> suffix

\* what zipfile.ZipFile(file_path) finds when there is no archive: it raises
NotAZip == [ok |-> FALSE, members |-> {}]

\* the files detected: a suffix, the first bytes when the file can be read and, for a
\* file that starts with the ZIP signature, what zipfile.ZipFile finds: no archive or
\* the members (zip_file.namelist(), a name given by its path segments)
DetectedFiles ==
    LET Suffixes == {".docx", ".DOCX", ".xls", ".txt", ".bin", ".BIN", ".dot", ".xyz"}
        Headers ==
            { SigZip \o <<"14">>, SigOle \o <<"00">>, SigOleShort \o <<"00">>,
              <<"%", "P", "D", "F", "-">>, <<"<", "h", "t", "m", "l", ">">>,
              <<"P", "K">>, << >> }
        MemberNames ==
            { <<"word", "document.xml">>, <<"ppt", "presentation.xml">>,
              <<"ppt", "slides", "slide1.xml">>, <<"xl", "workbook.xml">>,
              <<"META-INF", "container.xml">>, <<"mimetype">> }
        Archives == {NotAZip} \cup {[ok |-> TRUE, members |-> m] : m \in SUBSET MemberNames}
    IN { f \in [suffix : Suffixes, readable : BOOLEAN, header : Headers, archive : Archives] :
           /\ ~startswith(f.header, SigZip) => f.archive = NotAZip
           /\ ~f.readable => f.header = << >> /\ f.archive = NotAZip }

\* a _detect_office_zip_format that looks for the workbook before the document
detect_office_zip_format_WorkbookFirst(f) ==
    CASE f.archive = NotAZip -> NoFormat
      [] <<"xl", "workbook.xml">> \in f.archive.members -> "xlsx"
      [] <<"word", "document.xml">> \in f.archive.members -> "docx"
      [] OTHER -> NoFormat

\* FormatDetector._detect_office_zip_format: ZipFile raising is caught, None returned;
\* 'ppt/slides/' in str(file_list) when some name holds the segment ppt followed by the
\* segment slides followed by a further segment
detect_office_zip_format(f) ==
    LET file_list == f.archive.members
        in_str_ppt_slides ==
            \E name \in file_list : \E i \in 1..(Len(name) - 2) :
                name[i] = "ppt" /\ name[i + 1] = "slides"
    IN IF f.archive = NotAZip THEN NoFormat
       ELSE IF <<"word", "document.xml">> \in file_list THEN "docx"
       ELSE IF <<"ppt", "presentation.xml">> \in file_list \/ in_str_ppt_slides THEN "pptx"
       ELSE IF <<"xl", "workbook.xml">> \in file_list THEN "xlsx"
       ELSE IF <<"META-INF", "container.xml">> \in file_list THEN "epub"
       ELSE NoFormat

\* FormatDetector._detect_office_ole_format
detect_office_ole_format(f) ==
    CASE lower(f.suffix) = ".doc" -> "doc"
      [] lower(f.suffix) = ".ppt" -> "ppt"
      [] lower(f.suffix) = ".xls" -> "xls"
      [] OTHER -> NoFormat

\* FormatDetector._verify_office_format
verify_office_format(f, expected_format) ==
    LET \* `x or expected_format`
        or_else(x) == IF x = NoFormat THEN expected_format ELSE x
    IN IF ~f.readable THEN expected_format
       ELSE IF startswith(f.header, SigZip) THEN or_else(detect_office_zip_format(f))
       ELSE IF startswith(f.header, SigOleShort) THEN or_else(detect_office_ole_format(f))
       ELSE expected_format

\* mimetypes.guess_type(file_path)[0] for the suffixes that are not in the table
guess_type(f) ==
    CASE lower(f.suffix) = ".bin" -> "application/octet-stream"
      [] lower(f.suffix) = ".dot" -> "application/msword"
      [] OTHER -> NoFormat

\* FormatDetector._mime_to_format, for the types guessed
mime_to_format(mime_type) ==
    CASE mime_type = "application/msword" -> "doc"
      [] OTHER -> NoFormat

\* the signatures of FILE_SIGNATURES that the header starts with, in dict order
MatchingSignatures(f) ==
    SelectSeq(FILE_SIGNATURES, LAMBDA s : startswith(f.header, s[1]))

\* FormatDetector.detect_format
detect_format(f) ==
    LET extension == lower(f.suffix)
        by_mime == IF guess_type(f) # NoFormat THEN mime_to_format(guess_type(f))
                   ELSE NoFormat
    IN IF extension \in DOMAIN SUPPORTED_FORMATS
       THEN LET detected_format == SUPPORTED_FORMATS[extension]
            IN IF detected_format \in {"docx", "pptx", "xlsx"}
                  \/ extension \in {".doc", ".ppt", ".xls"}
               THEN verify_office_format(f, detected_format)
               ELSE detected_format
       ELSE IF f.readable /\ MatchingSignatures(f) # << >>
            THEN LET format_type == Head(MatchingSignatures(f))[2]
                 IN CASE format_type = "office_zip" -> detect_office_zip_format(f)
                      [] format_type = "office_ole" -> detect_office_ole_format(f)
                      [] OTHER -> format_type
            ELSE by_mime

\* a thread calls FormatDetector.detect_format(file_path)
FD_Call(p) ==
    /\ \A q \in Procs : proc[q].op = "idle" /\ p <= q
    /\ \E f \in DetectedFiles :
          Step(p, [op |-> "detect_format", pc |-> "run", file |-> f])
    /\ UNCHANGED <<groups_meta, meta_file, dirs, vstore, tasks, next_gid, next_rid, nreq>>

\* the body of detect_format; the thread then holds the format returned
FD_Detect(p) ==
    /\ proc[p].op = "detect_format" /\ proc[p].pc = "run"
    /\ Step(p, [op |-> "detect_format", pc |-> "done", file |-> proc[p].file,
                format |-> detect_format(proc[p].file)])
    /\ UNCHANGED <<groups_meta, meta_file, dirs, vstore, tasks, next_gid, next_rid, nreq>>

\* the format goes back to the caller
FD_Return(p) ==
    /\ proc[p].op = "detect_format" /\ proc[p].pc = "done"
    /\ Step(p, Idle(proc[p].format, ""))
    /\ UNCHANGED <<groups_meta, meta_file, dirs, vstore, tasks, next_gid, next_rid, nreq>>

NextDetect == \E p \in Procs : FD_Call(p) \/ FD_Detect(p) \/ FD_Return(p)

\* format detection on files of every suffix, header and archive
SpecDetect == Init /\ [][NextDetect]_vars

\* ------------------------------------------------- the threads under scheduling
\* the uuid4 values that the requests of threads 1..p may still draw for their records
RECURSIVE PendingUpTo(_)
PendingUpTo(p) ==
    LET Pending ==
            IF proc[p].op \in {"upload", "add_webpages"}
            THEN CASE proc[p].pc = "start" -> proc[p].n
                   [] proc[p].pc = "dispatch" -> 0
                   [] OTHER -> proc[p].n - proc[p].idx + 1
            ELSE 0
    IN IF p = 0 THEN 0 ELSE Pending + PendingUpTo(p - 1)

\* the records of the requests under way fit into the uuid4 values of the model, so that
\* no thread ever waits for a value
IdsSuffice == next_rid + PendingUpTo(NProcs) <= MaxRecords

\* an upload / add-webpages request arriving while its records fit
U_Admit(p) == U_Call(p) /\ IdsSuffice'

WA_Admit(p) == WA_Call(p) /\ IdsSuffice'

ScheduledRequest(p) ==
    \/ U_Admit(p)
    \/ U_Start(p)
    \/ U_Check(p)
    \/ U_Probe(p)
    \/ U_Save(p)
    \/ U_GetSize(p)
    \/ U_AddMeta(p)
    \/ U_Dispatch(p)
    \/ WA_Admit(p)
    \/ WA_Start(p)
    \/ WA_Check(p)
    \/ WA_AddMeta(p)
    \/ WA_Dispatch(p)
    \/ DF_Call(p)
    \/ DF_Start(p)
    \/ DF_Lookup(p)
    \/ DF_VectorDelete(p)
    \/ DF_RemoveBlob(p)
    \/ DF_RemoveMeta(p)
    \/ DW_Call(p)
    \/ DW_Start(p)
    \/ DW_VectorDelete(p)
    \/ DW_RemoveMeta(p)

NextScheduled ==
    \/ \E p \in Procs : ScheduledRequest(p)
    \/ \E k \in RecordIds : Background(k)

\* the requests and index tasks on the sources of existing groups, with every thread that
\* can take a step scheduled in the end: a request thread inside its handler and a
\* background thread inside its index task
SpecScheduled ==
    /\ InitSources /\ [][NextScheduled]_vars
    /\ \A p \in Procs : WF_vars(ScheduledRequest(p))
    /\ \A k \in RecordIds : WF_vars(Background(k))

\* ------------------------------------------------ DataProcessor.process_data
MaxDocs == 2         \* documents that the loaders return in one call of process_data

\* s < t for two str values: strings are sequences of characters, compared by the code
\* points of their characters
RECURSIVE str_less(_, _)
str_less(s, t) ==
    LET CodePoint(c) ==
            CASE c = "1" -> 49
              [] c = "2" -> 50
              [] c = "a" -> 97
              [] c = "g" -> 103
              [] OTHER -> 117
    IN IF t = << >> THEN FALSE
       ELSE IF s = << >> THEN TRUE
       ELSE IF Head(s) # Head(t) THEN CodePoint(Head(s)) < CodePoint(Head(t))
       ELSE str_less(Tail(s), Tail(t))

\* DataProcessor.STABLE_METADATA_KEYS
STABLE_METADATA_KEYS == <<"file_name", "page_label", "file_id", "webpage_id", "source_url">>

\* keys_to_keep = DataProcessor.STABLE_METADATA_KEYS + ["group_id"]
keys_to_keep == STABLE_METADATA_KEYS \o <<"group_id">>

\* a metadata dict is a function from its keys; metadata.get(key, "")
metadata_get(metadata, key) == IF key \in DOMAIN metadata THEN metadata[key] ELSE << >>

\* metadata[key] = value
metadata_set(metadata, key, value) ==
    [k \in DOMAIN metadata \cup {key} |-> IF k = key THEN value ELSE metadata[k]]

\* the calls of process_data: the group, the stored files or the webpages, and what is
\* loaded, by which loader
ProcessCalls ==
    LET ProcessGroupIds == {<<"g", "1">>, <<"g", "2">>}
        StoredNames == {<<"a">>, <<"a", "1">>}
        PageLabels == {<<"1">>, <<"1", "1">>, <<"2">>}
        WebUrls == {<<"u", "1">>, <<"u", "2">>}
        \* files_meta: the records of the files, of which the one named a_1 may be
        \* missing (its blob then is the suffixed blob of another record)
        FilesMetas ==
            { <<[name |-> <<"a">>, id |-> <<"1">>]>>,
              <<[name |-> <<"a">>, id |-> <<"1">>], [name |-> <<"a", "1">>, id |-> <<"2">>]>> }
        \* the chunks that a parser of document_parsers extracts: base_metadata and, for
        \* the paged formats, the label of the page
        ParserChunks ==
            { [file_name |-> f, format_type |-> <<"a">>, page_label |-> l,
               chunk_type |-> <<"a">>] : f \in StoredNames, l \in PageLabels }
        \* the documents that SimpleDirectoryReader loads
        ReaderDocuments ==
            { [file_name |-> f, file_path |-> <<"a">> \o f, creation_date |-> <<"2">>] :
                  f \in StoredNames }
            \cup { [file_name |-> f, file_path |-> <<"a">> \o f, creation_date |-> <<"2">>,
                    page_label |-> <<"1">>] : f \in StoredNames }
        SeqsUpTo(S) == UNION {[1..m -> S] : m \in 1..MaxDocs}
    IN [group_id : ProcessGroupIds, loader : {"parser"}, files_meta : FilesMetas,
        loaded : SeqsUpTo(ParserChunks)]
       \cup [group_id : ProcessGroupIds, loader : {"reader"}, files_meta : FilesMetas,
             loaded : SeqsUpTo(ReaderDocuments)]
       \cup [group_id : ProcessGroupIds, loader : {"web"}, files_meta : {<< >>},
             loaded : SeqsUpTo({[url |-> u, id |-> <<"2">>] : u \in WebUrls})]

\* chunk.metadata["group_id"] = group_id / doc.metadata["group_id"] = group_id
tag_group(metadata, group_id) == metadata_set(metadata, "group_id", group_id)

\* _load_from_web: the document that BeautifulSoupWebReader loads for the URL, with
\* source_url, file_name, group_id and webpage_id set
load_from_web(webpage_meta, group_id) ==
    LET doc == [k \in {"URL"} |-> webpage_meta.url]
    IN metadata_set(
           tag_group(
               metadata_set(metadata_set(doc, "source_url", webpage_meta.url),
                            "file_name", webpage_meta.url),
               group_id),
           "webpage_id", webpage_meta.id)

\* the back-fill of file_id in process_data: the first record of files_meta whose name is
\* the file_name of the document
backfill_file_id(metadata, files_meta) ==
    LET matching == SelectSeq(files_meta,
                              LAMBDA meta : meta.name = metadata_get(metadata, "file_name"))
    IN IF matching # << >>
       THEN metadata_set(metadata, "file_id", Head(matching).id)
       ELSE metadata

\* documents_with_group of process_data, the documents being given by their metadata
documents_with_group(call) ==
    [i \in DOMAIN call.loaded |->
        IF call.loader = "web"
        THEN load_from_web(call.loaded[i], call.group_id)
        ELSE backfill_file_id(tag_group(call.loaded[i], call.group_id), call.files_meta)]

\* a _clean_and_normalize that keeps every key
new_metadata_KeepAll(metadata) == metadata

\* new_metadata = {key: doc.metadata[key] for key in keys_to_keep if key in doc.metadata}
new_metadata(metadata) ==
    [k \in {keys_to_keep[i] : i \in DOMAIN keys_to_keep} \cap DOMAIN metadata |-> metadata[k]]

\* the key of processed_docs.sort: str(group_id) + str(file_name) + str(page_label)
sort_key(metadata) ==
    metadata_get(metadata, "group_id") \o metadata_get(metadata, "file_name")
    \o metadata_get(metadata, "page_label")

\* list.sort(key=...): the documents by key, those of equal key in their former order
RECURSIVE list_sort(_)
list_sort(docs) ==
    IF docs = << >>
    THEN << >>
    ELSE LET x == Head(docs)
             rest == list_sort(Tail(docs))
         IN SelectSeq(rest, LAMBDA y : str_less(sort_key(y), sort_key(x)))
            \o <<x>>
            \o SelectSeq(rest, LAMBDA y : ~str_less(sort_key(y), sort_key(x)))

\* DataProcessor._clean_and_normalize
clean_and_normalize(documents) ==
    list_sort([i \in DOMAIN documents |-> new_metadata(documents[i])])

\* node_parser.get_nodes_from_documents(..., include_metadata=True): the nodes of a
\* document carry its metadata; the documents here are short enough for one node each
get_nodes_from_documents(documents) == documents

\* a thread calls process_data(group_id, files_meta=...) or (group_id, webpages_meta=...)
PD_Call(p) ==
    /\ \A q \in Procs : proc[q].op = "idle" /\ p <= q
    /\ \E call \in ProcessCalls :
          Step(p, [op |-> "process_data", pc |-> "load", call |-> call])
    /\ UNCHANGED <<groups_meta, meta_file, dirs, vstore, tasks, next_gid, next_rid, nreq>>

\* the loaders have returned and file_id is back-filled
PD_Load(p) ==
    /\ proc[p].op = "process_data" /\ proc[p].pc = "load"
    /\ Step(p, [op |-> "process_data", pc |-> "clean", call |-> proc[p].call,
                documents |-> documents_with_group(proc[p].call)])
    /\ UNCHANGED <<groups_meta, meta_file, dirs, vstore, tasks, next_gid, next_rid, nreq>>

\* cleaned_documents = self._clean_and_normalize(documents_with_group)
PD_Clean(p) ==
    /\ proc[p].op = "process_data" /\ proc[p].pc = "clean"
    /\ Step(p, [op |-> "process_data", pc |-> "nodes", call |-> proc[p].call,
                documents |-> proc[p].documents,
                cleaned |-> clean_and_normalize(proc[p].documents)])
    /\ UNCHANGED <<groups_meta, meta_file, dirs, vstore, tasks, next_gid, next_rid, nreq>>

\* base_nodes = get_nodes_from_documents(cleaned_documents); _generate_stable_node_ids
\* gives them their ids and leaves their metadata as it is
PD_Nodes(p) ==
    /\ proc[p].op = "process_data" /\ proc[p].pc = "nodes"
    /\ Step(p, [op |-> "process_data", pc |-> "done", call |-> proc[p].call,
                documents |-> proc[p].documents, cleaned |-> proc[p].cleaned,
                nodes |-> get_nodes_from_documents(proc[p].cleaned)])
    /\ UNCHANGED <<groups_meta, meta_file, dirs, vstore, tasks, next_gid, next_rid, nreq>>

\* return stable_nodes
PD_Return(p) ==
    /\ proc[p].op = "process_data" /\ proc[p].pc = "done"
    /\ Step(p, Idle("nodes", ""))
    /\ UNCHANGED <<groups_meta, meta_file, dirs, vstore, tasks, next_gid, next_rid, nreq>>

NextProcess ==
    \E p \in Procs : PD_Call(p) \/ PD_Load(p) \/ PD_Clean(p) \/ PD_Nodes(p) \/ PD_Return(p)

\* process_data on the documents of each loader
SpecProcess == Init /\ [][NextProcess]_vars

\* --------------------------------------------- TextParser._extract_chunks_by_size
MaxContent == 4      \* characters of the content of a text file
MaxChunkSize == 3    \* values of chunk_size, from 1
MaxOverlap == 3      \* values of chunk_overlap, from 0

\* how far beyond the window the loop looks for white space: range(end, min(end + 100, ...))
BoundaryLookahead == 100

\* the characters at which a window may end
WhiteSpace == {" ", "\n", "\t"}

Min(a, b) == IF a < b THEN a ELSE b

Max(a, b) == IF a > b THEN a ELSE b

\* str.strip()
RECURSIVE strip(_)
strip(s) ==
    IF s = << >> THEN s
    ELSE IF Head(s) \in WhiteSpace THEN strip(Tail(s))
    ELSE IF s[Len(s)] \in WhiteSpace THEN strip(SubSeq(s, 1, Len(s) - 1))
    ELSE s

\* content[start:end], for 0 <= start
slice(content, start, end) == SubSeq(content, start + 1, Min(end, Len(content)))

\* the end of the window that starts at `start`: start + chunk_size, moved to the first
\* white space at or after it when the window is not the last one
window_end(content, start, chunk_size) ==
    LET end == start + chunk_size
        found == {i \in end..(Min(end + BoundaryLookahead, Len(content)) - 1) :
                     content[i + 1] \in WhiteSpace}
    IN IF end < Len(content) /\ found # {}
       THEN CHOOSE i \in found : \A j \in found : i <= j
       ELSE end

\* a chunker that steps back by the overlap whatever the size of the window
next_start_NoProgress(start, end, chunk_overlap) == end - chunk_overlap

\* start = max(start + 1, end - self.chunk_overlap)
next_start(start, end, chunk_overlap) == Max(start + 1, end - chunk_overlap)

\* a thread calls _extract_chunks_by_size(content, base_metadata), on a content without
\* an empty line (with one, extract_chunks goes by paragraphs) and under values of
\* self.chunk_size, self.chunk_overlap and self.min_chunk_length
TC_Call(p) ==
    /\ \A q \in Procs : proc[q].op = "idle" /\ p <= q
    /\ LET TextContents == UNION {[1..n -> {"x", " "}] : n \in 1..MaxContent}
       IN \E content \in TextContents, chunk_size \in 1..MaxChunkSize,
             chunk_overlap \in 0..MaxOverlap, min_chunk_length \in {1, 2} :
             Step(p, [op |-> "extract_chunks_by_size", content |-> content,
                      chunk_size |-> chunk_size, chunk_overlap |-> chunk_overlap,
                      min_chunk_length |-> min_chunk_length,
                      start |-> 0, windows |-> << >>, chunks |-> << >>])
    /\ UNCHANGED <<groups_meta, meta_file, dirs, vstore, tasks, next_gid, next_rid, nreq>>

\* one iteration of `while start < content_length:`
TC_Iterate(p) ==
    /\ proc[p].op = "extract_chunks_by_size"
    /\ proc[p].start < Len(proc[p].content)
    /\ LET start == proc[p].start
           end == window_end(proc[p].content, start, proc[p].chunk_size)
           chunk_text == strip(slice(proc[p].content, start, end))
       IN Step(p, [proc[p] EXCEPT
                      !.windows = Append(@, [start |-> start, end |-> end]),
                      !.chunks = IF Len(chunk_text) >= proc[p].min_chunk_length
                                 THEN Append(@, chunk_text) ELSE @,
                      !.start = next_start(start, end, proc[p].chunk_overlap)])
    /\ UNCHANGED <<groups_meta, meta_file, dirs, vstore, tasks, next_gid, next_rid, nreq>>

\* the loop is left: return chunks
TC_Return(p) ==
    /\ proc[p].op = "extract_chunks_by_size"
    /\ ~(proc[p].start < Len(proc[p].content))
    /\ Step(p, Idle("chunks", ""))
    /\ UNCHANGED <<groups_meta, meta_file, dirs, vstore, tasks, next_gid, next_rid, nreq>>

NextChunker == \E p \in Procs : TC_Call(p) \/ TC_Iterate(p) \/ TC_Return(p)

\* the fixed-window chunker on every content, chunk_size and chunk_overlap
SpecChunker == Init /\ [][NextChunker]_vars

\* ================================================================= claims
\* the step taken is a step of request thread p
Moved(p) == proc'[p] # proc[p]

\* the step taken is a step of background thread k
TaskMoved(k) == k \notin DOMAIN tasks' \/ tasks'[k] # tasks[k]

\* the status of record id of group g in a catalog, "absent" when there is none
StatusOf(meta, g, id) ==
    IF g \notin DOMAIN meta THEN "absent"
    ELSE IF \E i \in DOMAIN meta[g].files : meta[g].files[i].id = id
    THEN meta[g].files[CHOOSE i \in DOMAIN meta[g].files : meta[g].files[i].id = id].status
    ELSE IF \E i \in DOMAIN meta[g].webpages : meta[g].webpages[i].id = id
    THEN meta[g].webpages[CHOOSE i \in DOMAIN meta[g].webpages : meta[g].webpages[i].id = id].status
    ELSE "absent"

InDeleteGroup(p, pcs) == proc[p].op = "delete_group" /\ proc[p].pc \in pcs

\* step 1 of delete_group has failed: the exception of the vector store is in flight,
\* or the re-query is about to find entries of the group
Step1Failed(p) ==
    \/ InDeleteGroup(p, {"vexc"})
    \/ InDeleteGroup(p, {"verify"}) /\ NodesOfGroup(proc[p].gid) # {}

\* C1: while delete_group is in its step 1 (check, vector delete, re-query, handler) it
\* changes neither the catalog nor the blob storage, and once step 1 has failed (the
\* vector store raised, or the re-query still finds entries of the group) its next
\* steps only lead to the return value false.
C1_Step1FailureLeavesDirectoryAndCatalog ==
    [][\A p \in Procs :
          (InDeleteGroup(p, {"start", "vdelete", "verify", "vexc"}) /\ Moved(p))
          => /\ groups_meta' = groups_meta
             /\ dirs' = dirs
             /\ Step1Failed(p)
                => \/ proc'[p].op = "idle" /\ proc'[p].ret = "False"
                   \/ proc'[p].op = "delete_group" /\ proc'[p].pc = "vexc"]_vars

\* delete_group has returned false on residual entries of a group that still has its
\* catalog entry with a file record and its directory with the blob
C1_Witness ==
    \E p \in Procs, g \in DOMAIN groups_meta :
        /\ proc[p] = Idle("False", "verify failed")
        /\ NodesOfGroup(g) # {}
        /\ Len(groups_meta[g].files) > 0
        /\ g \in DOMAIN dirs /\ DOMAIN dirs[g] # {}

\* C2: every node of the vector store carries the id of a group of the catalog.
C2_NodesBelongToGroups == \A n \in vstore : n.group_id \in DOMAIN groups_meta

\* C3: a delete_group whose directory removal did not succeed (the directory is still
\* there after the storage step) returns false and leaves the catalog as it is, and a
\* catalog entry is only ever removed when its directory is gone.
C3_RmtreeFailureKeepsCatalog ==
    [][/\ \A p \in Procs :
             (/\ InDeleteGroup(p, {"storage"}) /\ Moved(p)
              /\ get_group_by_id(proc[p].gid)
              /\ get_group_physical_path(proc[p].gid) \in DOMAIN dirs
              /\ get_group_physical_path(proc[p].gid) \in DOMAIN dirs')
             => /\ proc'[p].op = "idle" /\ proc'[p].ret = "False"
                /\ groups_meta' = groups_meta
       /\ \A g \in DOMAIN groups_meta :
             g \notin DOMAIN groups_meta' => groups_meta[g].directory \notin DOMAIN dirs]_vars

\* delete_group has returned false after a failed rmtree and the group is in the catalog
C3_Witness ==
    \E p \in Procs, g \in DOMAIN groups_meta :
        /\ proc[p] = Idle("False", "rmtree failed")
        /\ groups_meta[g].directory \in DOMAIN dirs

\* C4: a record appears with status processing, and the only changes of the status of
\* a record are processing -> completed and processing -> failed.
C4_StatusChangesOnce ==
    [][\A g \in GroupIds, id \in RecordIds :
          LET a == StatusOf(groups_meta, g, id)
              b == StatusOf(groups_meta', g, id) IN
          a # b => \/ a = "absent" /\ b = "processing"
                   \/ a = "processing" /\ b \in {"completed", "failed"}
                   \/ b = "absent"]_vars

\* a batch is through: one record is completed, another failed
C4_Witness ==
    \E g \in DOMAIN groups_meta, i, j \in RecordIds :
        /\ StatusOf(groups_meta, g, i) = "completed"
        /\ StatusOf(groups_meta, g, j) = "failed"

\* C5: the index task marks a file record completed only when process_data returned
\* nodes for it (the parse succeeded) and these were inserted.
C5_CompletedOnlyAfterParse ==
    [][\A k \in RecordIds :
          (/\ Running(k, "complete") /\ tasks[k].kind = "files"
           /\ StatusOf(groups_meta, tasks[k].gid, Item(k).id) = "processing"
           /\ StatusOf(groups_meta', tasks[k].gid, Item(k).id) = "completed")
          => tasks[k].nodes # {}]_vars

\* the records of a catalog other than record id of group g
OtherRecords(meta, g, id) ==
    [h \in DOMAIN meta |->
        [files |-> SelectSeq(meta[h].files, LAMBDA r : h # g \/ r.id # id),
         webpages |-> SelectSeq(meta[h].webpages, LAMBDA r : h # g \/ r.id # id)]]

\* C6: the failure of item i of a batch (an exception, a missing blob) changes the
\* status of that item only, to failed, and the task goes on with item i + 1 (it ends
\* only after the last item).
C6_ItemFailureIsIsolated ==
    [][\A k \in RecordIds :
          ((Running(k, "missing") \/ Running(k, "except")) /\ TaskMoved(k))
          => /\ OtherRecords(groups_meta', tasks[k].gid, Item(k).id)
                  = OtherRecords(groups_meta, tasks[k].gid, Item(k).id)
             /\ StatusOf(groups_meta', tasks[k].gid, Item(k).id) \in {"failed", "absent"}
             /\ IF tasks[k].idx < Len(tasks[k].items)
                THEN /\ k \in DOMAIN tasks'
                     /\ tasks'[k].idx = tasks[k].idx + 1
                     /\ tasks'[k].pc \in {"exists", "process"}
                ELSE k \notin DOMAIN tasks']_vars

\* a batch of two: the first item failed and the second one completed after it
C6_Witness ==
    \E g \in DOMAIN groups_meta :
        /\ Len(groups_meta[g].files) = 2
        /\ groups_meta[g].files[1].status = "failed"
        /\ groups_meta[g].files[2].status = "completed"
        /\ tasks = << >>

\* C7: no two groups of the catalog have the same name.
C7_GroupNamesUnique ==
    \A g, h \in DOMAIN groups_meta : g # h => groups_meta[g].name # groups_meta[h].name

\* C8: create_group for a name that a group of the catalog has returns None, and
\* creates no directory and no catalog entry.
C8_DuplicateNameCreatesNothing ==
    [][\A p \in Procs :
          (/\ proc[p].op = "create_group" /\ proc[p].pc = "check" /\ Moved(p)
           /\ proc[p].name \in get_all_group_names)
          => /\ proc'[p] = Idle("None", "name exists")
             /\ groups_meta' = groups_meta
             /\ dirs' = dirs]_vars

\* create_group has refused a name that a group of the catalog has
C8_Witness ==
    \E p \in Procs :
        /\ proc[p] = Idle("None", "name exists")
        /\ groups_meta # << >>

\* C9: an uploaded file whose name a file record of the group has is skipped: the
\* catalog and the blobs stay as they are, the file is not among the accepted ones
\* handed to the index task, and the loop goes on with the next file.
C9_DuplicateFileNameIsSkipped ==
    [][\A p \in Procs :
          (/\ proc[p].op = "upload" /\ proc[p].pc = "check" /\ Moved(p)
           /\ get_file_by_name(proc[p].gid, proc[p].file.name))
          => /\ groups_meta' = groups_meta
             /\ dirs' = dirs
             /\ tasks' = tasks
             /\ proc'[p].op = "upload"
             /\ proc'[p].added = proc[p].added
             /\ proc'[p].pc \in {"check", "dispatch"}
             /\ proc'[p].pc = "check" => proc'[p].idx = proc[p].idx + 1]_vars

\* an upload whose last file was skipped for its name has accepted nothing and
\* dispatched no task, and the group has its record and its blob
C9_Witness ==
    \E p \in Procs, g \in DOMAIN groups_meta :
        /\ proc[p] = Idle("200", "name exists")
        /\ Len(groups_meta[g].files) = 1
        /\ g \in DOMAIN dirs /\ DOMAIN dirs[g] # {}

\* C10: add_file_meta (add_webpage_meta) called with a name (URL) that a record of the
\* group has returns no record and leaves the catalog as it is.
C10_AddMetaRejectsDuplicates ==
    [][\A p \in Procs :
          /\ (/\ proc[p].op = "upload" /\ proc[p].pc = "addmeta" /\ Moved(p)
              /\ get_file_by_name(proc[p].gid, proc[p].file.name))
             => groups_meta' = groups_meta /\ proc'[p].added = proc[p].added
          /\ (/\ proc[p].op = "add_webpages" /\ proc[p].pc = "addmeta" /\ Moved(p)
              /\ get_webpage_by_url(proc[p].gid, proc[p].url))
             => groups_meta' = groups_meta /\ proc'[p].added = proc[p].added]_vars

\* request thread p is in the loop of delete_files_from_group / delete_webpages_from_group
InDelete(p) == proc[p].op \in {"delete_files", "delete_webpages"} /\ proc[p].pc # "start"

\* the step of p stays with the current id and goes on to one of these positions
GoesOn(p, pcs) ==
    /\ proc'[p].op = proc[p].op
    /\ proc'[p].idx = proc[p].idx
    /\ proc'[p].pc \in pcs

\* the step of p is one in which the vector store or os.remove raised
Raised(p) ==
    \/ proc[p].pc = "vdelete" /\ ~GoesOn(p, {"blob", "meta"})
    \/ proc[p].pc = "blob" /\ ~GoesOn(p, {"meta"})

\* C11: the delete loops go through every id of the request, also after an id failed
\* (they return only from the last id), all_success is true as long as no id raised,
\* the value returned is all_success, and an id that got through its last step has no
\* record in the group.
C11_DeleteProcessesEveryIdAndReportsAll ==
    [][\A p \in Procs :
          (InDelete(p) /\ Moved(p))
          => /\ proc'[p].op = "idle"
                => /\ proc[p].idx = proc[p].n
                   /\ (proc'[p].ret = "True") <=> (proc[p].all_success /\ ~Raised(p))
             /\ proc'[p].op # "idle"
                => /\ proc'[p].idx \in {proc[p].idx, proc[p].idx + 1}
                   /\ proc'[p].all_success <=> (proc[p].all_success /\ ~Raised(p))
             /\ proc[p].pc = "meta"
                => ~HasRecord(groups_meta', proc[p].gid, proc[p].op, proc[p].id)]_vars

\* a delete of two ids whose first id failed is about to remove the record of the second
C11_Witness ==
    \E p \in Procs :
        /\ proc[p].op = "delete_files" /\ proc[p].pc = "meta"
        /\ proc[p].idx = 2 /\ ~proc[p].all_success
        /\ get_file_by_id(proc[p].gid, proc[p].id)

\* the vector store raised in the step of p: entries of the id were there and still are
VectorDeleteFailed(p) ==
    /\ proc[p].pc = "vdelete"
    /\ vstore' = vstore
    /\ \E n \in vstore : IF proc[p].op = "delete_files"
                         THEN n.file_id = proc[p].id
                         ELSE n.webpage_id = proc[p].id

\* os.remove raised in the step of p: the blob was there and still is
RemoveFailed(p) ==
    /\ proc[p].op = "delete_files" /\ proc[p].pc = "blob"
    /\ BlobExists(get_group_physical_path(proc[p].gid), proc[p].file_meta.path)
    /\ dirs' = dirs

\* C12: for each id the delete loops touch the vector store first, then the blob (files
\* only), then the catalog: each store changes only at its own step, the steps follow
\* each other in this order, and after a step that raised the loop leaves the id (next
\* id, or return false) with the blob and the catalog record as they were.
C12_DeleteOrderVectorBlobCatalog ==
    [][\A p \in Procs :
          (InDelete(p) /\ Moved(p))
          => /\ vstore' # vstore => proc[p].pc = "vdelete"
             /\ dirs' # dirs => proc[p].pc = "blob"
             /\ groups_meta' # groups_meta => proc[p].pc = "meta"
             /\ GoesOn(p, {"blob"}) => proc[p].op = "delete_files" /\ proc[p].pc = "vdelete"
             /\ GoesOn(p, {"meta"})
                => proc[p].pc = IF proc[p].op = "delete_files" THEN "blob" ELSE "vdelete"
             /\ (VectorDeleteFailed(p) \/ RemoveFailed(p))
                => /\ ~GoesOn(p, {"blob", "meta"})
                   /\ proc'[p].op = "idle" => proc'[p].ret = "False"
                   /\ proc'[p].op # "idle" => ~proc'[p].all_success
                   /\ groups_meta' = groups_meta
                   /\ dirs' = dirs]_vars

\* delete_files has returned false after os.remove raised: the entries of the file are
\* gone from the vector store, its blob and its catalog record are still there
C12_Witness ==
    \E p \in Procs, g \in DOMAIN groups_meta, i \in RecordIds :
        /\ proc[p] = Idle("False", "remove error")
        /\ i \in DOMAIN groups_meta[g].files
        /\ LET r == groups_meta[g].files[i] IN
           /\ r.status = "completed"
           /\ BlobExists(g, r.path) /\ dirs[g][r.path] = "good"
           /\ \A n \in vstore : n.file_id # r.id

\* the ids of the file records of group g in a catalog
FileIds(meta, g) ==
    IF g \in DOMAIN meta THEN {meta[g].files[i].id : i \in DOMAIN meta[g].files} ELSE {}

\* C13: the files list of a group gets a record only from an upload to this group, which
\* appends the record it accepted and nothing else, and loses a record only to a delete of
\* this record in this group; so concurrent uploads to different groups leave each group
\* with exactly its own records.
C13_UploadsTouchOnlyTheirGroup ==
    [][\A g \in GroupIds :
          LET before == FileIds(groups_meta, g)
              after == FileIds(groups_meta', g) IN
          /\ after \ before # {}
             => \E p \in Procs :
                   /\ proc[p].op = "upload" /\ proc[p].pc = "addmeta" /\ proc[p].gid = g
                   /\ Len(proc'[p].added) = Len(proc[p].added) + 1
                   /\ groups_meta'[g].files
                         = Append(groups_meta[g].files, proc'[p].added[Len(proc'[p].added)])
                   /\ proc'[p].added[Len(proc'[p].added)].name = proc[p].file.name
          /\ before \ after # {}
             => \E p \in Procs :
                   /\ proc[p].op = "delete_files" /\ proc[p].pc = "meta" /\ proc[p].gid = g
                   /\ Moved(p)
                   /\ before \ after = {proc[p].id}]_vars

\* two uploads to two different groups are both through their files at the same time, and
\* the files list of each group is what its upload accepted
C13_Witness ==
    \E p, q \in Procs :
        /\ proc[p].op = "upload" /\ proc[p].pc = "dispatch" /\ proc[p].added # << >>
        /\ proc[q].op = "upload" /\ proc[q].pc = "dispatch" /\ proc[q].added # << >>
        /\ proc[p].gid # proc[q].gid
        /\ groups_meta[proc[p].gid].files = proc[p].added
        /\ groups_meta[proc[q].gid].files = proc[q].added

\* C14: a mutating GroupManager call checks and mutates under the lock, as if the calls ran
\* one at a time: when create_group inserts its entry, what its check found still holds
\* (no group of the catalog has the name).
C14_CreateGroupInsertsWhatItChecked ==
    [][\A p \in Procs :
          (proc[p].op = "create_group" /\ proc[p].pc = "insert" /\ Moved(p))
          => proc[p].name \notin get_all_group_names]_vars

\* C15: a mutating GroupManager call whose write of the catalog file failed does not
\* return its success value.
C15_WriteFailureIsReported ==
    [][\A p \in Procs :
          (Moved(p) /\ proc'[p].op = "idle" /\ proc'[p].log = "save failed")
          => proc'[p].ret \in {"None", "False"}]_vars

\* the items of a metadata dict, whatever their insertion order
Items(md) == {md[i] : i \in DOMAIN md}

\* thread p holds the list returned by _generate_stable_node_ids
HasIds(p) == proc[p].op = "generate_stable_node_ids" /\ proc[p].pc = "done"

\* C16: two nodes with the same text and the same metadata items get the same id from
\* _generate_stable_node_ids, whatever the insertion order of the items, the position of
\* the node in its batch, the id it had before and the run that computed it.
C16_NodeIdDependsOnTextAndMetadataOnly ==
    \A p, q \in Procs :
        (HasIds(p) /\ HasIds(q))
        => \A i \in DOMAIN proc[p].nodes, j \in DOMAIN proc[q].nodes :
              (/\ proc[p].nodes[i].text = proc[q].nodes[j].text
               /\ Items(proc[p].nodes[i].metadata) = Items(proc[q].nodes[j].metadata))
              => proc[p].nodes[i].id_ = proc[q].nodes[j].id_

\* two runs have given the same id to two nodes that have the same text and the same
\* items, inserted in different orders, at different positions and with different ids
\* before
C16_Witness ==
    \E p, q \in Procs :
        /\ p # q /\ HasIds(p) /\ HasIds(q)
        /\ \E i \in DOMAIN proc[p].nodes, j \in DOMAIN proc[q].nodes :
              /\ i # j
              /\ proc[p].given[i].id_ # proc[q].given[j].id_
              /\ proc[p].given[i].metadata # proc[q].given[j].metadata
              /\ Items(proc[p].given[i].metadata) = Items(proc[q].given[j].metadata)
              /\ proc[p].given[i].text = proc[q].given[j].text
              /\ proc[p].nodes[i].id_ = proc[q].nodes[j].id_

\* C17: ingesting a file again gives its nodes the ids they got the first time, so the
\* vector store never holds two entries for the same chunk (same text) of the same stored
\* file of the same group.
C17_ReingestAddsNoEntry ==
    \A m, n \in vstore :
        (/\ m.webpage_id = NoId /\ n.webpage_id = NoId
         /\ m.group_id = n.group_id
         /\ m.file_name = n.file_name
         /\ m.text = n.text)
        => m = n

\* C18: delete_group for a group id that is not in the catalog returns true at once and
\* changes nothing in the catalog, its file, the blob storage and the vector store.
C18_DeleteMissingGroupIsNoOp ==
    [][\A p \in Procs :
          (/\ InDeleteGroup(p, {"start"}) /\ Moved(p)
           /\ proc[p].gid \notin DOMAIN groups_meta)
          => /\ proc'[p] = Idle("True", "not found")
             /\ groups_meta' = groups_meta
             /\ meta_file' = meta_file
             /\ dirs' = dirs
             /\ vstore' = vstore
             /\ tasks' = tasks]_vars

\* a group was created and deleted with success by one delete_group, and another
\* delete_group has returned true for a group id that was not in the catalog
C18_Witness ==
    \E p, q \in Procs :
        /\ proc[p] = Idle("True", "")
        /\ proc[q] = Idle("True", "not found")
        /\ next_gid > 0
        /\ groups_meta = << >> /\ dirs = << >>

\* C19: no two file records of a group have the same stored path.
C19_StoredPathsDistinct ==
    \A g \in DOMAIN groups_meta :
        \A i, j \in DOMAIN groups_meta[g].files :
            i # j => groups_meta[g].files[i].path # groups_meta[g].files[j].path

\* the labels of the pages whose extracted text, stripped, has at least `minimum`
\* characters, in page order
LabelsOfLongPages(pages, minimum) ==
    LET long == SelectSeq([i \in DOMAIN pages |-> i],
                          LAMBDA i : pages[i].kind = "text" /\ pages[i].len >= minimum)
    IN [k \in DOMAIN long |-> ToString(long[k])]

\* C20: the chunks extracted from a PDF are, in page order, one chunk for every page whose
\* stripped text has at least the configured minimum (RAGConfig.MIN_CHUNK_LENGTH) of
\* characters, labelled with its 1-based page number, and none for the other pages.
C20_OneChunkPerPageAboveConfiguredMinimum ==
    \A p \in Procs :
        (proc[p].op = "extract_chunks" /\ proc[p].pc = "done")
        => [k \in DOMAIN proc[p].chunks |-> proc[p].chunks[k].page_label]
              = LabelsOfLongPages(proc[p].pages, proc[p].MIN_CHUNK_LENGTH)

\* thread p holds the format that detect_format returned for a file whose suffix is not
\* in the extension table and which starts with the ZIP signature and holds an archive
DetectedZipByContent(p) ==
    /\ proc[p].op = "detect_format" /\ proc[p].pc = "done"
    /\ lower(proc[p].file.suffix) \notin DOMAIN SUPPORTED_FORMATS
    /\ proc[p].file.readable
    /\ startswith(proc[p].file.header, SigZip)
    /\ proc[p].file.archive # NotAZip

\* the archive holds a presentation: ppt/presentation.xml or a slide under ppt/slides/
HasPptEntries(archive) ==
    \E name \in archive : name[1] = "ppt" /\ Len(name) >= 2

\* C21: for a file whose suffix is not in the extension table and which is a ZIP archive,
\* the members decide the format: docx when word/document.xml is a member, otherwise pptx
\* when there are ppt entries, otherwise xlsx when xl/workbook.xml is a member, otherwise
\* epub when META-INF/container.xml is a member.
C21_ZipMembersDecideFormat ==
    \A p \in Procs :
        DetectedZipByContent(p) =>
            LET archive == proc[p].file.archive.members
                format == proc[p].format
            IN IF <<"word", "document.xml">> \in archive THEN format = "docx"
               ELSE IF HasPptEntries(archive) THEN format = "pptx"
               ELSE IF <<"xl", "workbook.xml">> \in archive THEN format = "xlsx"
               ELSE <<"META-INF", "container.xml">> \in archive => format = "epub"

\* a .bin file that is a ZIP archive with word/document.xml and xl/workbook.xml among its
\* members has been detected as docx
C21_Witness ==
    \E p \in Procs :
        /\ DetectedZipByContent(p)
        /\ proc[p].file.suffix = ".bin"
        /\ {<<"word", "document.xml">>, <<"xl", "workbook.xml">>} \subseteq proc[p].file.archive.members
        /\ proc[p].format = "docx"

\* the ids of the records in the catalog `meta`, files and webpages of every group
RecordIdsIn(meta) ==
    UNION {{meta[g].files[i].id : i \in DOMAIN meta[g].files}
           \cup {meta[g].webpages[i].id : i \in DOMAIN meta[g].webpages} : g \in DOMAIN meta}

\* C22: a source that a delete has removed has no node in the vector store in any later
\* state.  Ids are handed out once, together with the catalog record, and in these
\* behaviours only delete_files_from_group / delete_webpages_from_group take a record out
\* of the catalog, as the last step of the removal: an id handed out that has no record
\* is the id of a removed source.
C22_RemovedSourceHasNoNodes ==
    \A s \in 1..next_rid :
        s \notin RecordIdsIn(groups_meta)
        => \A node \in vstore : node.file_id # s /\ node.webpage_id # s

\* C23: within one group no two file records have the same original file name and no two
\* webpage records have the same URL, whatever requests run at the same time.
C23_NamesAndUrlsUniqueInGroup ==
    \A g \in DOMAIN groups_meta :
        /\ \A i, j \in DOMAIN groups_meta[g].files :
              groups_meta[g].files[i].name = groups_meta[g].files[j].name => i = j
        /\ \A i, j \in DOMAIN groups_meta[g].webpages :
              groups_meta[g].webpages[i].url = groups_meta[g].webpages[j].url => i = j

\* the step taken is the insert_nodes of the index task k of an upload, and it succeeds
InsertsFileNodes(k) ==
    /\ Running(k, "insert") /\ tasks[k].kind = "files"
    /\ k \in DOMAIN tasks' /\ tasks'[k].pc = "complete"

\* C24: every node that the index task of an upload inserts into the vector store for
\* the file record f carries file_id = f.id, also when the blob of f was stored under a
\* suffixed name.
C24_InsertedNodesCarryFileId ==
    [][\A k \in RecordIds :
          InsertsFileNodes(k) => \A node \in tasks[k].nodes : node.file_id = Item(k).id]_vars

\* C25: a step of delete_files_from_group(g, ids) / delete_webpages_from_group(g, ids)
\* deletes nothing of another group: every node it takes out of the vector store is a node
\* of g, and the blobs and the catalog records of the other groups stay as they are.
C25_DeleteTouchesOnlyItsGroup ==
    [][\A p \in Procs :
          (InDelete(p) /\ Moved(p)) =>
              /\ \A node \in vstore \ vstore' : node.group_id = proc[p].gid
              /\ \A h \in DOMAIN groups_meta \ {proc[p].gid} :
                    /\ h \in DOMAIN groups_meta' /\ groups_meta'[h] = groups_meta[h]
                    /\ h \in DOMAIN dirs' /\ dirs'[h] = dirs[h]]_vars

\* the status of the record `id`, in whichever group it is
StatusOfRecord(id) ==
    IF \E g \in DOMAIN groups_meta : StatusOf(groups_meta, g, id) # "absent"
    THEN StatusOf(groups_meta,
                  CHOOSE g \in DOMAIN groups_meta : StatusOf(groups_meta, g, id) # "absent", id)
    ELSE "absent"

\* C26: with every thread scheduled and every external call returning or raising, a record
\* whose status is processing has in the end the status completed or failed, or has been
\* deleted.
C26_ProcessingEnds ==
    \A id \in RecordIds :
        (StatusOfRecord(id) = "processing")
        ~> (StatusOfRecord(id) \in {"completed", "failed", "absent"})

\* the index task of an upload has ended and has left one record completed and one failed
C26_Witness ==
    /\ tasks = << >>
    /\ \E g \in DOMAIN groups_meta :
          \E i, j \in DOMAIN groups_meta[g].files :
              /\ groups_meta[g].files[i].status = "completed"
              /\ groups_meta[g].files[j].status = "failed"

\* the keys that may stay in the metadata of a node
AllowedKeys == {"file_name", "page_label", "file_id", "webpage_id", "source_url", "group_id"}

\* C27: every node that process_data(group_id, ...) returns has only allow-listed
\* metadata keys, and its group_id is the group_id argument, whichever loader produced
\* the document.
C27_NodesCarryAllowedKeysAndGroup ==
    \A p \in Procs :
        (proc[p].op = "process_data" /\ proc[p].pc = "done") =>
            \A i \in DOMAIN proc[p].nodes :
                /\ DOMAIN proc[p].nodes[i] \subseteq AllowedKeys
                /\ "group_id" \in DOMAIN proc[p].nodes[i]
                /\ proc[p].nodes[i]["group_id"] = proc[p].call.group_id

\* process_data has returned the nodes of documents of SimpleDirectoryReader, which came
\* with file_path and creation_date
C27_Witness ==
    \E p \in Procs :
        /\ proc[p].op = "process_data" /\ proc[p].pc = "done"
        /\ proc[p].call.loader = "reader"
        /\ proc[p].nodes # << >>
        /\ \A i \in DOMAIN proc[p].documents :
              {"file_path", "creation_date"} \subseteq DOMAIN proc[p].documents[i]

\* the tuple (group_id, file_name, page_label) of a document
SortTuple(metadata) ==
    <<metadata_get(metadata, "group_id"), metadata_get(metadata, "file_name"),
      metadata_get(metadata, "page_label")>>

\* s < t for two such tuples, compared component by component
TupleLess(s, t) ==
    \E i \in 1..3 :
        /\ \A j \in 1..(i - 1) : s[j] = t[j]
        /\ str_less(s[i], t[i])

\* C28: _clean_and_normalize returns the documents in the order of their tuples
\* (group_id, file_name, page_label), compared component by component: documents with
\* pairwise distinct tuples come out in increasing order of the tuples, whatever their
\* order in the input.
C28_CleanedDocumentsInTupleOrder ==
    \A p \in Procs :
        (/\ proc[p].op = "process_data" /\ proc[p].pc \in {"nodes", "done"}
         /\ \A i, j \in DOMAIN proc[p].documents :
               i # j => SortTuple(proc[p].documents[i]) # SortTuple(proc[p].documents[j]))
        => \A i, j \in DOMAIN proc[p].cleaned :
               i < j => TupleLess(SortTuple(proc[p].cleaned[i]), SortTuple(proc[p].cleaned[j]))

\* index task k is at the status update that ends its current item, and the record of the
\* item, or its group, is no longer in the catalog
UpdatesMissingRecord(k) ==
    /\ k \in DOMAIN tasks
    /\ tasks[k].pc \in {"complete", "missing", "except"}
    /\ StatusOf(groups_meta, tasks[k].gid, Item(k).id) = "absent"

\* C29: the status update of an index task whose record or group has been deleted leaves
\* the catalog as it is: it re-creates no record and no group and changes no other record,
\* and nothing is written to the catalog file.
C29_UpdateOfDeletedRecordChangesNothing ==
    [][\A k \in RecordIds :
          (UpdatesMissingRecord(k) /\ TaskMoved(k))
          => groups_meta' = groups_meta /\ meta_file' = meta_file]_vars

\* the index task of a webpage has inserted its nodes and is about to mark the webpage
\* completed, and the record of the webpage has been deleted
C29_Witness ==
    \E k \in RecordIds :
        /\ UpdatesMissingRecord(k)
        /\ tasks[k].pc = "complete" /\ tasks[k].kind = "web"
        /\ tasks[k].nodes # {} /\ tasks[k].nodes \subseteq vstore
        /\ tasks[k].gid \in DOMAIN groups_meta

\* the step taken is an iteration of the chunker loop of thread p
Iterates(p) ==
    /\ proc[p].op = "extract_chunks_by_size"
    /\ proc'[p].op = "extract_chunks_by_size"
    /\ Len(proc'[p].windows) = Len(proc[p].windows) + 1

\* C30: in every iteration of _extract_chunks_by_size, whatever chunk_size >= 1 and
\* chunk_overlap >= 0, the start of the window strictly increases and the next window
\* starts no later than the end of the one just taken, so no character lies between two
\* windows; the loop therefore ends after at most one iteration per character.
C30_ChunkerProgressesWithoutGaps ==
    [][\A p \in Procs :
          Iterates(p) =>
              LET taken == proc'[p].windows[Len(proc'[p].windows)]
              IN /\ taken.start = proc[p].start
                 /\ proc'[p].start > proc[p].start
                 /\ proc'[p].start <= taken.end
                 /\ Len(proc'[p].windows) <= Len(proc[p].content)]_vars

\* a chunker whose chunk_overlap is at least its chunk_size has taken three windows
C30_Witness ==
    \E p \in Procs :
        /\ proc[p].op = "extract_chunks_by_size"
        /\ proc[p].chunk_overlap >= proc[p].chunk_size
        /\ Len(proc[p].windows) = 3
        /\ proc[p].start >= Len(proc[p].content)
====
